---- MODULE Spec2Model ----
(***************************************************************************)
(* A model of the ingestion and shard-scheduling pipeline of the          *)
(* repository: the Post Fetch Worker (fetch-user-tweets.ts), the Worker   *)
(* Orchestrator (run-workers.ts), the Post Embedding Worker               *)
(* (embed-messages, second half of ensure-pinecone-embeddings.ts), the    *)
(* Graph Ingestor (ingest-first-degree, unnamed/part_002), the Graph      *)
(* Collector (fetch-x-users.ts), the rate limiter of the fetch worker and *)
(* the retries of the three external operations.                          *)
(*                                                                         *)
(* In the specification of the ingestor a row of "users" also carries the  *)
(* handle columns xUsername and twitter.                                   *)
(*                                                                         *)
(* SQL NULL / JS undefined is the empty tuple <<>>, a present value v is  *)
(* the one-element tuple <<v>>.                                            *)
(***************************************************************************)
EXTENDS Integers, Sequences, FiniteSets, TLC

VARIABLES
    users,      \* "users" table: id -> [xUserId: option]
    api,        \* the external posts API: [npages: user -> Nat, text, likes: tweet -> value]
    messages,   \* "messages" table: tweet id -> option row
    progress,   \* "message_fetch_progress" table: user id -> option row
    wk,         \* the Post Fetch Worker processes: worker -> record of locals
    orch,       \* the orchestrator process (run-workers.ts main): "none" | "running" | "exit0" | "exit1"
    runs,       \* number of worker runs started so far (also the NOW() of progress stamps)
    lastReq,    \* history: the last page request sent, option [user, token, run]
    syncedIn,   \* history: user -> token -> the first run that committed that page's
                \* posts and recorded them in the progress row (0: none yet)
    lastUpsert, \* history: tweet id -> what the last upsert that met its row found,
                \* option [sameText, sameLikes, wasEmbedded]
    emb,        \* the Post Embedding Worker process: record of locals
    vectors,    \* the vector index, namespace "messages": tweet id -> option text
                \* the stored vector was computed from
    edits,      \* number of upstream edits of posts so far
    ing,        \* the Graph Ingestor process: record of locals, with the batch artifact
    following,  \* "following" table: set of <<follower_id, following_id>>
    xprofiles,  \* the external profile lookup: lower-case handle -> option account
    col,        \* the Graph Collector process: record of locals
    artifact,   \* the batch artifact file: option [usernames, edges]
    xfollowing, \* the external edge enumeration: seed -> sequence of pages of handles
    lim,        \* a worker's rate limiter and the clock it reads
    req,        \* a call of one of the three external operations, with its retries
    pv,         \* the profile embedding step of the ingestor and the profile index
    sel         \* the selection of the ingestor's slice from the artifact

embVars == <<emb, vectors, edits>>

ingVars == <<ing, following, xprofiles>>

colVars == <<col, artifact, xfollowing>>

netVars == <<lim, req>>


vars == <<users, api, messages, progress, wk, orch, runs, lastReq, syncedIn,
          lastUpsert, emb, vectors, edits, ing, following, xprofiles,
          col, artifact, xfollowing, lim, req, pv, sel>>

----------------------------------------------------------------------------
(* Bounds of the model *)

MaxUserId == 2      \* users have ids 1..MaxUserId
NumPages == 2       \* a user's timeline has at most NumPages pages
PerPage == 2        \* posts per full page (MAX_RESULTS_PER_PAGE scaled down)
MaxRuns == 2        \* worker runs in one behaviour
MaxCap == 2         \* the caps of a worker config are drawn from 0..MaxCap
MaxTotal == 2       \* the workerTotal of a worker definition is drawn from 1..MaxTotal
MaxEdits == 2       \* upstream edits of posts in one behaviour

Null == <<>>
Some(v) == <<v>>
Val(o) == o[1]

UserIds == 1..MaxUserId
Workers == {1, 2}
Tokens == 0..NumPages           \* 0: no pagination token

Min(a, b) == IF a < b THEN a ELSE b

\* COALESCE(a, b) / a ?? b
Coalesce(a, b) == IF a # Null THEN a ELSE b

----------------------------------------------------------------------------
(* The external posts API: GET /2/users/:id/tweets *)

\* the k-th post of page p of user u
TweetId(u, p, k) == ((u - 1) * NumPages + (p - 1)) * PerPage + k

TweetIds == 1..(MaxUserId * NumPages * PerPage)


\* the response to a request for user u with pagination token tok
\* (TweetsResponse: data, meta.next_token, meta.newest_id, meta.oldest_id)
ApiPage(a, u, tok) ==
    LET p == IF tok = 0 THEN 1 ELSE tok
        has == p <= a.npages[u]
    IN  [data |-> IF has
                  THEN [k \in 1..PerPage |->
                          [id |-> TweetId(u, p, k),
                           text |-> a.text[TweetId(u, p, k)],
                           likes |-> a.likes[TweetId(u, p, k)]]]
                  ELSE <<>>,
         next_token |-> IF p < a.npages[u] THEN p + 1 ELSE 0,
         newest_id |-> IF has THEN Some(TweetId(u, p, 1)) ELSE Null,
         oldest_id |-> IF has THEN Some(TweetId(u, p, PerPage)) ELSE Null]

----------------------------------------------------------------------------
(* Relational store: the statements of fetch-user-tweets.ts *)

\* the conflict branch as it would be if it cleared the embedding status on
\* every re-upsert
UpsertRowAlwaysClears(old, user, tweet) ==
    IF old = Null
    THEN Some([text |-> tweet.text, likes |-> tweet.likes, userId |-> user,
               embeddedAt |-> Null, embeddingError |-> Null,
               embeddingVersion |-> Null])
    ELSE Some([text |-> tweet.text, likes |-> tweet.likes, userId |-> Val(old).userId,
               embeddedAt |-> Null, embeddingError |-> Null,
               embeddingVersion |-> Null])

\* the conflict branch as it would be if it never cleared the embedding status
UpsertRowKeepsEmbedding(old, user, tweet) ==
    IF old = Null
    THEN Some([text |-> tweet.text, likes |-> tweet.likes, userId |-> user,
               embeddedAt |-> Null, embeddingError |-> Null,
               embeddingVersion |-> Null])
    ELSE Some([Val(old) EXCEPT !.text = tweet.text, !.likes = tweet.likes])

\* ON CONFLICT ("tweet_id") DO UPDATE of upsertTweets, for one row
UpsertRow(old, user, tweet) ==
    IF old = Null
    THEN Some([text |-> tweet.text, likes |-> tweet.likes, userId |-> user,
               embeddedAt |-> Null, embeddingError |-> Null,
               embeddingVersion |-> Null])
    ELSE LET m == Val(old)
             changed == m.text # tweet.text
         IN  Some([text |-> tweet.text, likes |-> tweet.likes, userId |-> m.userId,
                   embeddedAt |-> IF changed THEN Null ELSE m.embeddedAt,
                   embeddingError |-> IF changed THEN Null ELSE m.embeddingError,
                   embeddingVersion |-> IF changed THEN Null ELSE m.embeddingVersion])

\* upsertTweets: one INSERT ... ON CONFLICT statement for the page's posts
UpsertTweets(msgs, user, tweets) ==
    [t \in TweetIds |->
        IF \E i \in 1..Len(tweets) : tweets[i].id = t
        THEN UpsertRow(msgs[t], user,
                       tweets[CHOOSE i \in 1..Len(tweets) : tweets[i].id = t])
        ELSE msgs[t]]

\* markProgress as it would be with the conflict branch overwriting the
\* counter and the flag instead of accumulating them
MarkProgressRowOverwrite(old, shardKey, status, upd, now) ==
    Some([shard_key |-> shardKey,
          status |-> status,
          total_fetched |-> upd.totalFetchedDelta,
          newest_tweet_id |-> IF old = Null THEN upd.newestId
                              ELSE Coalesce(upd.newestId, Val(old).newest_tweet_id),
          oldest_tweet_id |-> IF old = Null THEN upd.oldestId
                              ELSE Coalesce(upd.oldestId, Val(old).oldest_tweet_id),
          last_run_started_at |-> IF upd.runStarted THEN Some(now) ELSE Null,
          last_run_finished_at |-> IF status = "idle" \/ status = "error"
                                   THEN Some(now) ELSE Null,
          last_error |-> upd.error,
          initial_sync_complete |-> upd.hadFullSync])

\* markProgress as it would be if the conflict branch took the cursors of the
\* call without COALESCE
MarkProgressRowNoCoalesce(old, shardKey, status, upd, now) ==
    IF old = Null
    THEN MarkProgressRowOverwrite(old, shardKey, status, upd, now)
    ELSE Some([Val(old) EXCEPT
                 !.shard_key = shardKey,
                 !.status = status,
                 !.total_fetched = @ + upd.totalFetchedDelta,
                 !.newest_tweet_id = upd.newestId,
                 !.oldest_tweet_id = upd.oldestId,
                 !.last_run_started_at =
                     IF upd.runStarted THEN Some(now) ELSE @,
                 !.last_run_finished_at =
                     IF status = "idle" \/ status = "error" THEN Some(now) ELSE @,
                 !.last_error = upd.error,
                 !.initial_sync_complete = @ \/ upd.hadFullSync])

\* markProgress as it would be if the conflict branch did not add the delta
MarkProgressRowDropsDelta(old, shardKey, status, upd, now) ==
    IF old = Null
    THEN MarkProgressRowOverwrite(old, shardKey, status, upd, now)
    ELSE Some([Val(old) EXCEPT
                 !.shard_key = shardKey,
                 !.status = status,
                 !.newest_tweet_id = Coalesce(upd.newestId, @),
                 !.oldest_tweet_id = Coalesce(upd.oldestId, @),
                 !.last_run_started_at =
                     IF upd.runStarted THEN Some(now) ELSE @,
                 !.last_run_finished_at =
                     IF status = "idle" \/ status = "error" THEN Some(now) ELSE @,
                 !.last_error = upd.error,
                 !.initial_sync_complete = @ \/ upd.hadFullSync])

\* markProgress as it would be if the conflict branch left the status alone
MarkProgressRowKeepsStatus(old, shardKey, status, upd, now) ==
    IF old = Null
    THEN MarkProgressRowOverwrite(old, shardKey, status, upd, now)
    ELSE Some([Val(old) EXCEPT
                 !.shard_key = shardKey,
                 !.total_fetched = @ + upd.totalFetchedDelta,
                 !.newest_tweet_id = Coalesce(upd.newestId, @),
                 !.oldest_tweet_id = Coalesce(upd.oldestId, @),
                 !.last_run_started_at =
                     IF upd.runStarted THEN Some(now) ELSE @,
                 !.last_run_finished_at =
                     IF status = "idle" \/ status = "error" THEN Some(now) ELSE @,
                 !.last_error = upd.error,
                 !.initial_sync_complete = @ \/ upd.hadFullSync])

\* markProgress: INSERT ... ON CONFLICT ("user_id") DO UPDATE, for the row of
\* one user; upd carries totalFetchedDelta, newestId, oldestId, hadFullSync,
\* error, runStarted (with the defaults of lines 249-255 applied); now is NOW()
MarkProgressRow(old, shardKey, status, upd, now) ==
    LET finished == status = "idle" \/ status = "error"
        ex == [shard_key |-> shardKey,
               status |-> status,
               total_fetched |-> upd.totalFetchedDelta,
               newest_tweet_id |-> upd.newestId,
               oldest_tweet_id |-> upd.oldestId,
               last_run_started_at |-> IF upd.runStarted THEN Some(now) ELSE Null,
               last_run_finished_at |-> IF finished THEN Some(now) ELSE Null,
               last_error |-> upd.error,
               initial_sync_complete |-> upd.hadFullSync]
    IN  IF old = Null
        THEN Some(ex)
        ELSE LET r == Val(old)
             IN Some([shard_key |-> ex.shard_key,
                      status |-> ex.status,
                      total_fetched |-> r.total_fetched + ex.total_fetched,
                      newest_tweet_id |-> Coalesce(ex.newest_tweet_id, r.newest_tweet_id),
                      oldest_tweet_id |-> Coalesce(ex.oldest_tweet_id, r.oldest_tweet_id),
                      last_run_started_at |->
                          Coalesce(ex.last_run_started_at, r.last_run_started_at),
                      last_run_finished_at |->
                          Coalesce(ex.last_run_finished_at, r.last_run_finished_at),
                      last_error |-> ex.last_error,
                      initial_sync_complete |->
                          r.initial_sync_complete \/ ex.initial_sync_complete])

\* the updates object of a markProgress call with nothing supplied
NoUpdates ==
    [totalFetchedDelta |-> 0, newestId |-> Null, oldestId |-> Null,
     hadFullSync |-> FALSE, error |-> Null, runStarted |-> FALSE]

\* usersQuery as it would be with the shard test off by a comparison
UsersQueryUpTo(us, workerTotal, workerIndex) ==
    {u \in DOMAIN us : us[u].xUserId # Null /\ u % workerTotal <= workerIndex}

\* usersQuery: WHERE "xUserId" IS NOT NULL AND MOD("id", $1) = $2
UsersQuery(us, workerTotal, workerIndex) ==
    {u \in DOMAIN us : us[u].xUserId # Null /\ u % workerTotal = workerIndex}

\* the sequence of a set of ids as it would be with ORDER BY "id" DESC
SortedSeqDescending(S) ==
    [i \in 1..Cardinality(S) |->
        CHOOSE x \in S : Cardinality({y \in S : y > x}) = i - 1]

\* ORDER BY "id": the ascending sequence of a set of ids
RECURSIVE SortedSeq(_)
SortedSeq(S) ==
    IF S = {} THEN <<>>
    ELSE LET m == CHOOSE x \in S : \A y \in S : x <= y
         IN  <<m>> \o SortedSeq(S \ {m})

\* Array.prototype.slice(0, n)
Take(s, n) == SubSeq(s, 1, Min(Len(s), n))

----------------------------------------------------------------------------
(* The Graph Ingestor: ingestFirstDegree *)

\* handles as they are written in the artifact and returned by the service
RawHandles == {"Bob", "bobby"}

\* toLowerCase / LOWER
Lower(h) == IF h = "Bob" THEN "bob" ELSE h

Keys == {Lower(h) : h \in RawHandles}

\* the local ids of the seed entities, the followers of the edge intents
Followers == {1, 2}

\* the accounts of the external service: external id and canonical handle
Accounts == {[id |-> 3, username |-> "Bob"], [id |-> 4, username |-> "bobby"]}

UserRow(x, name, tw) == [xUserId |-> x, xUsername |-> name, twitter |-> tw]

\* LOWER(COALESCE(NULLIF("xUsername", ''), NULLIF("twitter", '')))
RowUsername(r) ==
    IF r.xUsername # Null THEN Some(Lower(Val(r.xUsername)))
    ELSE IF r.twitter # Null THEN Some(Lower(Val(r.twitter)))
    ELSE Null

\* the rows of "users" that loadExistingUsers files under handle k
EntitiesOf(us, k) == {i \in DOMAIN us : RowUsername(us[i]) = Some(k)}

\* loadExistingUsers: the maps the query can produce; the rows come in no
\* given order and a later row of the same handle replaces an earlier one
LoadExistingUsers(us) ==
    {m \in [Keys -> {Null} \cup {Some(i) : i \in DOMAIN us}] :
        \A k \in Keys : IF EntitiesOf(us, k) = {} THEN m[k] = Null
                        ELSE m[k] # Null /\ Val(m[k]) \in EntitiesOf(us, k)}

\* buildEdgeMap: lower-case handle -> set of follower ids; a handle has an
\* entry exactly when its set is not empty
BuildEdgeMap(edges) ==
    [k \in Keys |-> {e.followerDbId : e \in {d \in edges : Lower(d.followingUsername) = k}}]

\* the statement as it would be without its ON CONFLICT clause: a pair that
\* is stored already violates the primary key, the statement raises and
\* inserts nothing
UpsertFollowingEdgesPlain(fol, followerIds, followingId) ==
    LET pairs == {<<f, followingId>> : f \in followerIds}
    IN  [rows |-> IF pairs \cap fol = {} THEN fol \cup pairs ELSE fol,
         raised |-> pairs \cap fol # {}]

\* upsertFollowingEdges: INSERT ... ON CONFLICT DO NOTHING into the table,
\* whose primary key is the pair; the rows after the statement and whether it
\* raised on a stored pair (up to 100 followers make one statement)
UpsertFollowingEdges(fol, followerIds, followingId) ==
    [rows |-> fol \cup {<<f, followingId>> : f \in followerIds},
     raised |-> FALSE]

\* try { await upsertFollowingEdges(...) } catch: accepted is FALSE when the
\* store rejects the statement; log is the history record of the statement
EdgeUpsert(accepted, followerIds, followingId) ==
    LET r == UpsertFollowingEdges(following, followerIds, followingId)
        pairs == {<<f, followingId>> : f \in followerIds}
    IN  [ok |-> accepted /\ ~r.raised,
         rows |-> IF accepted /\ ~r.raised THEN r.rows ELSE following,
         log |-> Some([pairs |-> pairs, dups |-> pairs \cap following,
                       accepted |-> accepted, raised |-> accepted /\ r.raised])]

\* findExistingUserId: the rows the query can return
FindExistingUserId(us, x) ==
    {i \in DOMAIN us :
        \/ us[i].xUserId = Some(x.id)
        \/ (us[i].xUsername # Null /\ Lower(Val(us[i].xUsername)) = Lower(x.username))
        \/ (us[i].twitter # Null /\ Lower(Val(us[i].twitter)) = Lower(x.username))}

\* insertUserFromX: a new row with the next serial id
InsertUserFromX(us, x) ==
    [i \in 1..(Cardinality(DOMAIN us) + 1) |->
        IF i \in DOMAIN us THEN us[i] ELSE UserRow(Null, Null, Some(x.username))]

\* updateUserInDB
UpdateUserInDB(us, userId, x) ==
    [us EXCEPT ![userId] = [@ EXCEPT !.xUserId = Some(x.id),
                                     !.xUsername = Some(x.username)]]

\* the ingestor process before its start, holding artifact batch; history:
\* lookupFailures counts the lookups that answered null for a handle the
\* service knows, snap is the content of the stores at the start of a run
\* that follows a run without failures, lastInsert is the last edge upsert
IngOff(batch) ==
    [pc |-> "off", batch |-> batch, run |-> 0, slice |-> <<>>, i |-> 1,
     existingUsers |-> [k \in Keys |-> Null], edgeMap |-> [k \in Keys |-> {}],
     processedUsernames |-> {}, x |-> Null, resolved |-> [k \in Keys |-> Null],
     processed |-> 0, inserted |-> 0, updated |-> 0, reusedExisting |-> 0,
     skippedMissing |-> 0, errors |-> 0, edgeFailures |-> 0,
     lookupFailures |-> 0, snap |-> Null, lastInsert |-> Null]

\* no ingestor, no edges, no external accounts
IngIdle ==
    /\ ing = IngOff([usernames |-> <<>>, edges |-> {}])
    /\ following = {}
    /\ xprofiles = [k \in Keys |-> Null]

Candidate == Lower(ing.slice[ing.i])

\* a run of the ingestor over the artifact has ended and no statement of it
\* failed: no lookup answered null for a handle the service knows, no
\* candidate was counted as an error and no edge upsert was rejected
CleanRunDone ==
    /\ ing.pc = "done" /\ ing.batch.usernames # <<>>
    /\ ing.errors = 0 /\ ing.edgeFailures = 0
    /\ \A i \in DOMAIN ing.slice :
          LET k == Lower(ing.slice[i])
          IN  (ing.existingUsers[k] = Null /\ xprofiles[k] # Null) => ing.resolved[k] # Null

\* lines 253-348: the artifact is read, the handle cache and the edge map are
\* built and the slice is taken (start index 0, no limit); an artifact
\* without usernames ends the run at once
IngStart ==
    /\ ing.pc \in {"off", "done"}
    /\ ing.run < MaxRuns
    /\ \E m \in LoadExistingUsers(users) :
          LET snap == IF CleanRunDone
                      THEN Some([users |-> users, following |-> following])
                      ELSE Null
          IN  ing' = IF ing.batch.usernames = <<>>
                     THEN [IngOff(ing.batch) EXCEPT !.pc = "done", !.run = ing.run + 1]
                     ELSE [IngOff(ing.batch) EXCEPT
                              !.pc = "loop", !.run = ing.run + 1,
                              !.slice = ing.batch.usernames,
                              !.existingUsers = m,
                              !.edgeMap = BuildEdgeMap(ing.batch.edges),
                              !.snap = snap]
    /\ UNCHANGED <<sel, pv, netVars, colVars, users, api, messages, progress, wk, orch, runs, lastReq, syncedIn,
                   lastUpsert, embVars, following, xprofiles>>

\* lines 357-372: the candidate is in the handle cache
IngReuseCached ==
    /\ ing.pc = "loop" /\ ing.i <= Len(ing.slice)
    /\ ing.existingUsers[Candidate] # Null
    /\ \E ok \in BOOLEAN :
          /\ following' = EdgeUpsert(ok, ing.edgeMap[Candidate],
                                     Val(ing.existingUsers[Candidate])).rows
          /\ ing' = [ing EXCEPT
                !.processedUsernames = @ \cup {Candidate},
                !.reusedExisting = @ + 1,
                !.edgeFailures = IF EdgeUpsert(ok, ing.edgeMap[Candidate],
                                     Val(ing.existingUsers[Candidate])).ok
                                 THEN @ ELSE @ + 1,
                !.lastInsert = EdgeUpsert(ok, ing.edgeMap[Candidate],
                                   Val(ing.existingUsers[Candidate])).log,
                !.i = @ + 1]
    /\ UNCHANGED <<sel, pv, netVars, colVars, users, api, messages, progress, wk, orch, runs, lastReq, syncedIn,
                   lastUpsert, embVars, xprofiles>>

\* lines 378-385: fetchXUserData answers with the profile, or with null when
\* the handle is not found or the request fails
IngLookup ==
    /\ ing.pc = "loop" /\ ing.i <= Len(ing.slice)
    /\ ing.existingUsers[Candidate] = Null
    /\ \E x \in {xprofiles[Candidate], Null} :
          ing' = [ing EXCEPT
                !.pc = "fetched", !.x = x,
                !.lookupFailures = IF x = Null /\ xprofiles[Candidate] # Null
                                   THEN @ + 1 ELSE @,
                !.resolved[Candidate] =
                    IF x = Null THEN @ ELSE Some(Lower(Val(x).username))]
    /\ UNCHANGED <<sel, pv, netVars, colVars, users, api, messages, progress, wk, orch, runs, lastReq, syncedIn,
                   lastUpsert, embVars, following, xprofiles>>

\* the skip as it would be without its counter
IngSkipMissingUncounted ==
    /\ ing.pc = "fetched" /\ ing.x = Null
    /\ ing' = [ing EXCEPT !.pc = "loop", !.i = @ + 1]
    /\ UNCHANGED <<sel, pv, netVars, colVars, users, api, messages, progress, wk, orch, runs, lastReq, syncedIn,
                   lastUpsert, embVars, following, xprofiles>>

\* lines 386-390
IngSkipMissing ==
    /\ ing.pc = "fetched" /\ ing.x = Null
    /\ ing' = [ing EXCEPT !.pc = "loop", !.skippedMissing = @ + 1, !.i = @ + 1]
    /\ UNCHANGED <<sel, pv, netVars, colVars, users, api, messages, progress, wk, orch, runs, lastReq, syncedIn,
                   lastUpsert, embVars, following, xprofiles>>

\* lines 392-413: the canonical handle of the profile is in the handle cache
IngReuseCanonical ==
    /\ ing.pc = "fetched" /\ ing.x # Null
    /\ LET normalizedFetched == Lower(Val(ing.x).username)
           followerIds == ing.edgeMap[Candidate]
           normalizedFollowerSet == IF ing.edgeMap[normalizedFetched] # {}
                                    THEN ing.edgeMap[normalizedFetched]
                                    ELSE followerIds
       IN  /\ ing.existingUsers[normalizedFetched] # Null
           /\ \E ok \in BOOLEAN :
                 /\ following' = EdgeUpsert(ok, normalizedFollowerSet,
                                     Val(ing.existingUsers[normalizedFetched])).rows
                 /\ ing' = [ing EXCEPT
                       !.pc = "loop", !.x = Null,
                       !.processedUsernames = @ \cup {normalizedFetched},
                       !.reusedExisting = @ + 1,
                       !.edgeFailures = IF EdgeUpsert(ok, normalizedFollowerSet,
                                            Val(ing.existingUsers[normalizedFetched])).ok
                                        THEN @ ELSE @ + 1,
                       !.lastInsert = EdgeUpsert(ok, normalizedFollowerSet,
                                          Val(ing.existingUsers[normalizedFetched])).log,
                       !.i = @ + 1]
    /\ UNCHANGED <<sel, pv, netVars, colVars, users, api, messages, progress, wk, orch, runs, lastReq, syncedIn,
                   lastUpsert, embVars, xprofiles>>

\* lines 415-480: the entity is found or inserted and updated from the
\* profile, both handles are cached and the candidate's edges are upserted;
\* a failure of the embedding or of the vector upsert is logged only
IngStore ==
    /\ ing.pc = "fetched" /\ ing.x # Null
    /\ LET xUserData == Val(ing.x)
           normalizedFetched == Lower(xUserData.username)
           found == FindExistingUserId(users, xUserData)
       IN  /\ ing.existingUsers[normalizedFetched] = Null
           /\ \E userId \in (IF found = {} THEN {Cardinality(DOMAIN users) + 1} ELSE found),
                 ok \in BOOLEAN :
                 /\ users' = UpdateUserInDB(IF found = {}
                                            THEN InsertUserFromX(users, xUserData)
                                            ELSE users, userId, xUserData)
                 /\ following' = EdgeUpsert(ok, ing.edgeMap[Candidate], userId).rows
                 /\ ing' = [ing EXCEPT
                       !.pc = "loop", !.x = Null,
                       !.inserted = IF found = {} THEN @ + 1 ELSE @,
                       !.updated = IF found = {} THEN @ ELSE @ + 1,
                       !.existingUsers = [@ EXCEPT ![normalizedFetched] = Some(userId),
                                                   ![Candidate] = Some(userId)],
                       !.processedUsernames =
                           IF EdgeUpsert(ok, ing.edgeMap[Candidate], userId).ok
                           THEN @ \cup {Candidate} ELSE @,
                       !.edgeFailures =
                           IF EdgeUpsert(ok, ing.edgeMap[Candidate], userId).ok
                           THEN @ ELSE @ + 1,
                       !.lastInsert = EdgeUpsert(ok, ing.edgeMap[Candidate], userId).log,
                       !.processed = @ + 1,
                       !.i = @ + 1]
    /\ UNCHANGED <<sel, pv, netVars, colVars, api, messages, progress, wk, orch, runs, lastReq, syncedIn,
                   lastUpsert, embVars, xprofiles>>

\* lines 415-423, 481-485: a statement of the lookup, the insert or the
\* update throws; the candidate is counted as an error. With afterInsert the
\* update is the statement that throws and the inserted row stays
IngStoreThrows ==
    /\ ing.pc = "fetched" /\ ing.x # Null
    /\ LET xUserData == Val(ing.x)
           found == FindExistingUserId(users, xUserData)
       IN  /\ ing.existingUsers[Lower(xUserData.username)] = Null
           /\ \E afterInsert \in BOOLEAN :
                 /\ afterInsert => found = {}
                 /\ users' = IF afterInsert THEN InsertUserFromX(users, xUserData)
                             ELSE users
                 /\ ing' = [ing EXCEPT
                       !.pc = "loop", !.x = Null,
                       !.inserted = IF afterInsert THEN @ + 1 ELSE @,
                       !.errors = @ + 1,
                       !.i = @ + 1]
    /\ UNCHANGED <<sel, pv, netVars, colVars, api, messages, progress, wk, orch, runs, lastReq, syncedIn,
                   lastUpsert, embVars, following, xprofiles>>

\* lines 488-518: the second pass over the edge map, then the summary
IngFlush ==
    /\ ing.pc = "loop" /\ ing.i > Len(ing.slice)
    /\ LET eligible == {k \in Keys : /\ ing.edgeMap[k] # {}
                                     /\ k \notin ing.processedUsernames
                                     /\ ing.existingUsers[k] # Null}
           stmt(k, accepted) == EdgeUpsert(accepted, ing.edgeMap[k],
                                           Val(ing.existingUsers[k]))
       IN  \E failed \in SUBSET eligible :
              LET done == {k \in eligible : stmt(k, k \notin failed).ok}
              IN  /\ following' = following \cup
                        UNION {stmt(k, k \notin failed).rows : k \in eligible}
                  /\ ing' = [ing EXCEPT
                        !.pc = "done",
                        !.processedUsernames = @ \cup done,
                        !.edgeFailures = @ + Cardinality(eligible \ done),
                        !.lastInsert =
                            IF eligible = {} THEN @
                            ELSE Some([pairs |-> UNION {Val(stmt(k, TRUE).log).pairs :
                                                          k \in eligible \ failed},
                                       dups |-> UNION {Val(stmt(k, TRUE).log).dups :
                                                         k \in eligible \ failed},
                                       accepted |-> failed = {},
                                       raised |-> \E k \in eligible \ failed :
                                                     Val(stmt(k, TRUE).log).raised])]
    /\ UNCHANGED <<sel, pv, netVars, colVars, users, api, messages, progress, wk, orch, runs, lastReq, syncedIn,
                   lastUpsert, embVars, xprofiles>>

\* the known entities of the initial table, in the order of their ids: each
\* was written from a profile of its account, whose handle may have changed
\* since; no two of them carry the same handle
KnownLists ==
    {s \in UNION {[1..n -> [id : {a.id : a \in Accounts}, username : RawHandles]] :
                     n \in 0..Cardinality(Accounts)} :
        \A i, j \in DOMAIN s : i < j => (s[i].id < s[j].id /\ s[i].username # s[j].username)}

UsersWith(known, tw) ==
    [i \in 1..(Cardinality(Followers) + Len(known)) |->
        IF i \in Followers
        THEN UserRow(Some(i), Some(IF i = 1 THEN "s1" ELSE "s2"),
                     IF i = 1 THEN tw ELSE Null)
        ELSE LET a == known[i - Cardinality(Followers)]
             IN  UserRow(Some(a.id), Some(a.username), Some(a.username))]

\* the candidate lists of an artifact: handles, unique without regard to case
UsernameLists ==
    {s \in UNION {[1..n -> RawHandles] : n \in 0..Cardinality(RawHandles)} :
        \A i, j \in DOMAIN s : i # j => Lower(s[i]) # Lower(s[j])}

\* the lookups of the service: the canonical handle of an account finds it
ProfileLookups ==
    {x \in [Keys -> {Null} \cup {Some(a) : a \in Accounts}] :
        \A k \in Keys : x[k] # Null => x[Lower(Val(x[k]).username)] = x[k]}

----------------------------------------------------------------------------
(* The rate limiter of the Post Fetch Worker and the retries of the three
   external operations.  Times are in units of a quarter of the window. *)

WINDOW_MS == 4

\* the floor of the interval (Math.max(1000, ...)), below one unit
MIN_INTERVAL_MS == 1

MAX_RETRIES == 5

\* fetchXUserData: options.maxRetries ?? 3
DEFAULT_MAX_RETRIES == 3

BASE_BACKOFF_MS == 1

MaxBudget == 5

MaxClock == 10

MaxGrants == 3

MaxCalls == 2

Max(a, b) == IF a > b THEN a ELSE b

\* the interval as it would be with the quotient rounded down
RequestIntervalMsFloor(requestsPer15Minutes) ==
    Max(MIN_INTERVAL_MS, WINDOW_MS \div Max(1, requestsPer15Minutes))

\* fetch-user-tweets.ts lines 286-289, Math.ceil(a / b) being
\* (a + b - 1) \div b for positive integers
RequestIntervalMs(requestsPer15Minutes) ==
    Max(MIN_INTERVAL_MS, (WINDOW_MS + Max(1, requestsPer15Minutes) - 1)
                            \div Max(1, requestsPer15Minutes))

\* a limiter before its first slot; history: grants lists the times at which
\* slots were granted, waits counts the delays, sends lists the times at which
\* requests were sent
LimOff(budget, now) ==
    [budget |-> budget, now |-> now, lastRequestTime |-> 0, pc |-> "idle",
     wakeAt |-> 0, grants |-> <<>>, waits |-> 0, sends |-> <<>>]

\* time passes
Tick ==
    /\ lim.now < MaxClock
    /\ lim' = [lim EXCEPT !.now = @ + 1]
    /\ UNCHANGED <<sel, pv, req, colVars, users, api, messages, progress, wk, orch, runs,
                   lastReq, syncedIn, lastUpsert, embVars, ingVars>>

Grant(l) ==
    [l EXCEPT !.lastRequestTime = l.now, !.grants = Append(@, l.now), !.pc = "idle"]

\* waitForSlot, lines 318-325: the earliest time is computed, the timer is
\* set when it lies ahead, otherwise the slot is taken at once
WaitForSlot ==
    /\ lim.pc = "idle"
    /\ Len(lim.grants) < MaxGrants
    /\ LET earliest == lim.lastRequestTime + RequestIntervalMs(lim.budget)
       IN  lim' = IF earliest > lim.now
                  THEN [lim EXCEPT !.pc = "sleeping",
                                   !.wakeAt = lim.now + (earliest - lim.now),
                                   !.waits = @ + 1]
                  ELSE Grant(lim)
    /\ UNCHANGED <<sel, pv, req, colVars, users, api, messages, progress, wk, orch, runs,
                   lastReq, syncedIn, lastUpsert, embVars, ingVars>>

\* waitForSlot, lines 325-327: the timer fires, not before its time, and the
\* slot is taken at the time read then
WaitForSlotWake ==
    /\ lim.pc = "sleeping"
    /\ lim.now >= lim.wakeAt
    /\ lim' = Grant(lim)
    /\ UNCHANGED <<sel, pv, req, colVars, users, api, messages, progress, wk, orch, runs,
                   lastReq, syncedIn, lastUpsert, embVars, ingVars>>

\* the number of retries an operation allows
MaxRetriesOf(op) == IF op = "profile" THEN DEFAULT_MAX_RETRIES ELSE MAX_RETRIES

RECURSIVE Pow2(_)
Pow2(n) == IF n = 0 THEN 1 ELSE 2 * Pow2(n - 1)

\* the wait before a retry: the Retry-After header, or the backoff
WaitTime(op, attempt, retryAfter) ==
    IF retryAfter # Null THEN Val(retryAfter)
    ELSE IF op = "profile" THEN BASE_BACKOFF_MS * Pow2(attempt)
    ELSE BASE_BACKOFF_MS * (attempt + 1)

\* no call; history: calls counts the calls, gaveUp tells that the call in
\* hand ended on a rate-limited response, status is the status of the failure
\* it ended on (0: none), hint the Retry-After header of the last rate-limited
\* response
ReqOff ==
    [op |-> "none", pc |-> "idle", attempt |-> 0, wait |-> 0,
     outcome |-> "none", gaveUp |-> FALSE, calls |-> 0, status |-> 0,
     hint |-> Null]

\* no limiter and no call
NetIdle ==
    /\ lim = LimOff(1, 0)
    /\ req = ReqOff

\* the caller calls an operation, attempt 0
ReqCall(op) ==
    /\ req.pc \in {"idle", "returned", "threw"}
    /\ req.calls < MaxCalls
    /\ req' = [ReqOff EXCEPT !.op = op, !.pc = "sent", !.calls = req.calls + 1]
    /\ UNCHANGED <<sel, pv, lim, colVars, users, api, messages, progress, wk, orch, runs,
                   lastReq, syncedIn, lastUpsert, embVars, ingVars>>

\* the response is a success: the data are returned
ReqOk ==
    /\ req.pc = "sent"
    /\ req' = [req EXCEPT !.pc = "returned", !.outcome = "data"]
    /\ UNCHANGED <<sel, pv, lim, colVars, users, api, messages, progress, wk, orch, runs,
                   lastReq, syncedIn, lastUpsert, embVars, ingVars>>

\* the response is 429.  fetchTweetsPage lines 83-97 and fetchFollowingPage
\* lines 684-706 throw when attempt >= MAX_RETRIES; fetchXUserData lines
\* 450-469 throws when retryCount >= maxRetries, inside its own try, whose
\* catch (lines 477-481) logs the error and returns null
ReqRateLimited(retryAfter) ==
    /\ req.pc = "sent"
    /\ req' = IF req.attempt < MaxRetriesOf(req.op)
              THEN [req EXCEPT !.pc = "backoff", !.hint = retryAfter,
                               !.wait = WaitTime(req.op, req.attempt, retryAfter)]
              ELSE IF req.op = "profile"
              THEN [req EXCEPT !.pc = "returned", !.outcome = "null",
                               !.gaveUp = TRUE]
              ELSE [req EXCEPT !.pc = "threw", !.outcome = "RateLimit",
                               !.gaveUp = TRUE]
    /\ UNCHANGED <<sel, pv, lim, colVars, users, api, messages, progress, wk, orch, runs,
                   lastReq, syncedIn, lastUpsert, embVars, ingVars>>

\* the wait is over: the operation calls itself with attempt + 1
ReqRetry ==
    /\ req.pc = "backoff"
    /\ req' = [req EXCEPT !.pc = "sent", !.attempt = @ + 1, !.wait = 0]
    /\ UNCHANGED <<sel, pv, lim, colVars, users, api, messages, progress, wk, orch, runs,
                   lastReq, syncedIn, lastUpsert, embVars, ingVars>>

\* the response is another failure.  fetchTweetsPage lines 100-105 and
\* fetchFollowingPage lines 708-713 throw an error with the status and the
\* body on every status that is not ok, 404 included; fetchXUserData returns
\* null on 404 (lines 444-447) and throws on the others (lines 472-473)
\* inside its own try, whose catch (lines 477-481) returns null
ReqFails(status) ==
    /\ req.pc = "sent"
    /\ req' = IF req.op = "profile"
              THEN [req EXCEPT !.pc = "returned", !.outcome = "null",
                               !.status = status]
              ELSE [req EXCEPT !.pc = "threw", !.outcome = "ApiError",
                               !.status = status]
    /\ UNCHANGED <<sel, pv, lim, colVars, users, api, messages, progress, wk, orch, runs,
                   lastReq, syncedIn, lastUpsert, embVars, ingVars>>


\* a request of the page loop leaves at the time of the clock
SendPage(l, r) ==
    /\ lim' = [l EXCEPT !.sends = Append(@, l.now)]
    /\ req' = [ReqOff EXCEPT !.op = "posts", !.pc = "sent", !.calls = r.calls + 1]

\* fetch-user-tweets.ts lines 367-375: the page loop calls waitForSlot; when
\* no wait is due the slot is taken and fetchTweetsPage sends its request
PageLoopWaitForSlot ==
    /\ lim.pc = "idle"
    /\ req.pc \in {"idle", "returned", "threw"}
    /\ req.calls < MaxCalls
    /\ LET earliest == lim.lastRequestTime + RequestIntervalMs(lim.budget)
       IN  IF earliest > lim.now
           THEN /\ lim' = [lim EXCEPT !.pc = "sleeping",
                                      !.wakeAt = lim.now + (earliest - lim.now),
                                      !.waits = @ + 1]
                /\ req' = req
           ELSE SendPage(Grant(lim), req)
    /\ UNCHANGED <<sel, pv, colVars, users, api, messages, progress, wk, orch, runs,
                   lastReq, syncedIn, lastUpsert, embVars, ingVars>>

\* the timer of waitForSlot fires: the slot is taken and the request sent
PageLoopWake ==
    /\ lim.pc = "sleeping"
    /\ lim.now >= lim.wakeAt
    /\ SendPage(Grant(lim), req)
    /\ UNCHANGED <<sel, pv, colVars, users, api, messages, progress, wk, orch, runs,
                   lastReq, syncedIn, lastUpsert, embVars, ingVars>>

\* fetchTweetsPage lines 83-96: the response is 429; the retries used up, it
\* throws, otherwise the timer of the backoff is set
PageRateLimited(retryAfter) ==
    /\ req.pc = "sent"
    /\ lim.pc = "idle"
    /\ IF req.attempt < MaxRetriesOf(req.op)
       THEN /\ req' = [req EXCEPT !.pc = "backoff", !.hint = retryAfter,
                                  !.wait = WaitTime(req.op, req.attempt, retryAfter)]
            /\ lim' = [lim EXCEPT !.pc = "backoff",
                                  !.wakeAt = lim.now +
                                      WaitTime(req.op, req.attempt, retryAfter)]
       ELSE /\ req' = [req EXCEPT !.pc = "threw", !.outcome = "RateLimit",
                                  !.gaveUp = TRUE]
            /\ lim' = lim
    /\ UNCHANGED <<sel, pv, colVars, users, api, messages, progress, wk, orch, runs,
                   lastReq, syncedIn, lastUpsert, embVars, ingVars>>

\* fetchTweetsPage line 97: the timer of the backoff fires and the request is
\* sent again, without a call of waitForSlot
PageRetry ==
    /\ req.pc = "backoff"
    /\ lim.pc = "backoff"
    /\ lim.now >= lim.wakeAt
    /\ req' = [req EXCEPT !.pc = "sent", !.attempt = @ + 1, !.wait = 0]
    /\ lim' = [lim EXCEPT !.pc = "idle", !.sends = Append(@, lim.now)]
    /\ UNCHANGED <<sel, pv, colVars, users, api, messages, progress, wk, orch, runs,
                   lastReq, syncedIn, lastUpsert, embVars, ingVars>>


----------------------------------------------------------------------------
(* The slice of the ingestor: parseCLIOptions, shuffleCandidates and the
   selection at the head of ingestFirstDegree *)

MaxCandidates == 3
MaxOption == 4

\* normalizedCandidates of an artifact of n usernames, each candidate named by
\* its inputIndex
Candidates(n) == [i \in 1..n |-> i - 1]

\* Array.prototype.slice(start, end) for arguments that are not negative
Slice(arr, start, end) ==
    LET from == Min(start, Len(arr))
        to == Min(end, Len(arr))
    IN  IF from >= to THEN <<>> ELSE SubSeq(arr, from + 1, to)

\* the loop of shuffleCandidates from index i down, j = floor(random * (i + 1))
\* taking any value of 0..i (here the indexes start at 1), and the swap
\* [arr[i], arr[j]] = [arr[j], arr[i]]
RECURSIVE FisherYates(_, _)
FisherYates(arr, i) ==
    IF i <= 1 THEN {arr}
    ELSE UNION {FisherYates([arr EXCEPT ![i] = arr[j], ![j] = arr[i]], i - 1) :
                   j \in 1..i}

\* the arrays shuffleCandidates can return
ShuffleCandidates(items) == FisherYates(items, Len(items))

\* the values of a numeric option: absent, or a positive number (a value that
\* is not positive leaves the option unset)
OptionValues == {Null} \cup {Some(v) : v \in 1..MaxOption}

\* the sequential window starts one position late
SequentialSliceSkipsFirst(cands, startIndex, limit) ==
    LET sequentialStartIndex == Min(startIndex, Len(cands))
        sequentialEndIndex == IF limit # Null
                              THEN Min(sequentialStartIndex + Val(limit), Len(cands))
                              ELSE Len(cands)
    IN  Slice(cands, sequentialStartIndex + 1, sequentialEndIndex)

\* lines 320-333: the sequential window
SequentialSlice(cands, startIndex, limit) ==
    LET sequentialStartIndex == Min(startIndex, Len(cands))
        sequentialEndIndex == IF limit # Null
                              THEN Min(sequentialStartIndex + Val(limit), Len(cands))
                              ELSE Len(cands)
    IN  Slice(cands, sequentialStartIndex, sequentialEndIndex)

\* lines 313-315: the head of the shuffled pool
RandomSlice(workingCandidates, o) ==
    LET maxCount == IF o.sampleSize # Null THEN Val(o.sampleSize)
                    ELSE IF o.limit # Null THEN Val(o.limit)
                    ELSE Len(workingCandidates)
    IN  Slice(workingCandidates, 0, maxCount)

\* no selection made for an artifact of n usernames; history: covered holds
\* the slices of the consecutive windows taken so far, one after the other,
\* and next the start index of the window that follows them
SelOff(n) ==
    [pc |-> "off", n |-> n,
     options |-> [startIndex |-> 0, limit |-> Null, randomize |-> FALSE,
                  sampleSize |-> Null, ignoreFirst |-> Null],
     slice |-> <<>>, covered |-> <<>>, next |-> 0]

\* a sequential run with any start index and limit
SelSequential(startIndex, limit) ==
    /\ sel.pc = "off"
    /\ sel' = [sel EXCEPT
                 !.pc = "sliced",
                 !.options = [startIndex |-> startIndex, limit |-> limit,
                              randomize |-> FALSE, sampleSize |-> Null,
                              ignoreFirst |-> Null],
                 !.slice = SequentialSlice(Candidates(sel.n), startIndex, limit)]
    /\ UNCHANGED <<pv, netVars, colVars, users, api, messages, progress, wk, orch,
                   runs, lastReq, syncedIn, lastUpsert, embVars, ingVars>>

\* the next of a series of resumed runs: its start index is the previous
\* start index plus the previous limit
SelNextWindow(limit) ==
    /\ sel.pc \in {"off", "window"}
    /\ sel.next < sel.n
    /\ LET slice == SequentialSlice(Candidates(sel.n), sel.next, Some(limit))
       IN  sel' = [sel EXCEPT
                     !.pc = "window",
                     !.options = [startIndex |-> sel.next, limit |-> Some(limit),
                                  randomize |-> FALSE, sampleSize |-> Null,
                                  ignoreFirst |-> Null],
                     !.slice = slice,
                     !.covered = @ \o slice,
                     !.next = @ + limit]
    /\ UNCHANGED <<pv, netVars, colVars, users, api, messages, progress, wk, orch,
                   runs, lastReq, syncedIn, lastUpsert, embVars, ingVars>>

\* lines 306-315: a randomized run with any options; the candidates left
\* after the skip are shuffled
SelRandom(o) ==
    /\ sel.pc = "off"
    /\ o.randomize
    /\ LET skipCount == Min(IF o.ignoreFirst # Null THEN Val(o.ignoreFirst)
                            ELSE o.startIndex, sel.n)
           pool == Slice(Candidates(sel.n), skipCount, sel.n)
       IN  \E workingCandidates \in ShuffleCandidates(pool) :
          sel' = [sel EXCEPT !.pc = "sliced", !.options = o,
                             !.slice = RandomSlice(workingCandidates, o)]
    /\ UNCHANGED <<pv, netVars, colVars, users, api, messages, progress, wk, orch,
                   runs, lastReq, syncedIn, lastUpsert, embVars, ingVars>>
----------------------------------------------------------------------------
(* The profile embedding step of the ingestor: createEmbedding of the
   ingestion library and upsertEmbeddingToPinecone *)

VecDim == 2

\* the answers of embedMany for one text: the call throws, the list of
\* embeddings is empty (embeddings[0] is undefined), or it holds a vector,
\* which can be the empty one
EmbedAnswers ==
    {[kind |-> "throws", v |-> <<>>], [kind |-> "missing", v |-> <<>>]}
      \cup {[kind |-> "vector", v |-> v] :
              v \in UNION {[1..n -> {0, 1}] : n \in 0..VecDim}}

\* createEmbedding of the ingestion library (fetch-x-users.ts lines 484-495):
\* return embeddings[0], untested (the copy in ensure-pinecone-embeddings.ts
\* lines 32-49 throws on an empty vector; the ingestor imports this one)
CreateEmbedding(answer) ==
    IF answer.kind = "throws" THEN [threw |-> TRUE, value |-> Null]
    ELSE IF answer.kind = "missing" THEN [threw |-> FALSE, value |-> Null]
    ELSE [threw |-> FALSE, value |-> Some(answer.v)]

\* the step before its start; index is the profile namespace of the vector
\* index, account id -> option vector; history: answer is the kind of the last
\* answer of the embedding service, threw whether createEmbedding threw, sent the vectors of the upsert requests made
PvOff ==
    [pc |-> "off", todo |-> <<>>, embedding |-> Null, answer |-> "none", threw |-> FALSE,
     index |-> [a \in {3, 4} |-> Null], sent |-> {}, embeddingsCreated |-> 0]

\* the profiles of a run reach the embedding step one after the other
PvStart ==
    /\ pv.pc = "off"
    /\ pv' = [pv EXCEPT !.pc = "embed", !.todo = SortedSeq({3, 4})]
    /\ UNCHANGED <<sel, netVars, colVars, users, api, messages, progress, wk, orch, runs,
                   lastReq, syncedIn, lastUpsert, embVars, ingVars>>

\* part_002 lines 425-437: createEmbedding is called; a throw is caught and
\* logged and leaves embedding null
PvCreateEmbedding(answer) ==
    /\ pv.pc = "embed"
    /\ pv.todo # <<>>
    /\ LET r == CreateEmbedding(answer)
       IN  pv' = [pv EXCEPT !.pc = "upsert", !.embedding = r.value,
                            !.answer = IF answer.kind = "vector" /\ answer.v = <<>>
                                       THEN "empty" ELSE answer.kind,
                            !.threw = r.threw,
                            !.embeddingsCreated = IF r.threw THEN @ ELSE @ + 1]
    /\ UNCHANGED <<sel, netVars, colVars, users, api, messages, progress, wk, orch, runs,
                   lastReq, syncedIn, lastUpsert, embVars, ingVars>>

\* part_002 lines 439-461: if (embedding) the vector is upserted, an empty
\* array being truthy; the index accepts it or answers with an error, which
\* is caught and logged
PvUpsert(accepted) ==
    /\ pv.pc = "upsert"
    /\ LET a == Head(pv.todo)
           next == [pv EXCEPT !.todo = Tail(@), !.embedding = Null,
                              !.pc = IF Tail(pv.todo) = <<>> THEN "done" ELSE "embed"]
       IN  pv' = IF pv.embedding = Null
                 THEN next
                 ELSE [next EXCEPT !.sent = @ \cup {Val(pv.embedding)},
                                   !.index[a] = IF accepted THEN pv.embedding ELSE @]
    /\ UNCHANGED <<sel, netVars, colVars, users, api, messages, progress, wk, orch, runs,
                   lastReq, syncedIn, lastUpsert, embVars, ingVars>>
----------------------------------------------------------------------------
(* The Graph Collector: collectFirstDegreeFollowings *)

\* handles as the edge enumeration returns them
ColHandles == {"Bob", "bob", "bobby"}

\* localeCompare with sensitivity "base", on the lower-case handles
HandleRank(h) == IF h = "bob" THEN 1 ELSE IF h = "bobby" THEN 2 ELSE 3

\* the handles known to the store, in lower case (existingUsernames)
ExistingUsernames(us) ==
    {Val(RowUsername(us[i])) : i \in {j \in DOMAIN us : RowUsername(us[j]) # Null}}

\* the body of the loop over the users of a page as it would be without the
\* test of edgeDedup
ProcessFollowingNoDedup(st, existing, baseUserId, username) ==
    LET normalized == Lower(username)
        st1 == [st EXCEPT
                  !.edges = Append(@, [followerDbId |-> baseUserId,
                                       followingUsername |-> username]),
                  !.edgeDedup = @ \cup {<<baseUserId, normalized>>},
                  !.totalFollowings = @ + 1]
    IN  IF normalized \in existing \/ normalized \in st1.collectedUsernames
        THEN st1
        ELSE [st1 EXCEPT !.collectedUsernames = @ \cup {normalized}]

\* lines 821-846: one user of a page: the edge intent is recorded once per
\* (seed, lower-case handle), the handle is collected unless it is known
ProcessFollowing(st, existing, baseUserId, username) ==
    LET normalized == Lower(username)
        edgeKey == <<baseUserId, normalized>>
        st1 == IF edgeKey \notin st.edgeDedup
               THEN [st EXCEPT
                       !.edges = Append(@, [followerDbId |-> baseUserId,
                                            followingUsername |-> username]),
                       !.edgeDedup = @ \cup {edgeKey},
                       !.totalFollowings = @ + 1]
               ELSE [st EXCEPT !.totalFollowings = @ + 1]
    IN  IF normalized \in existing \/ normalized \in st1.collectedUsernames
        THEN st1
        ELSE [st1 EXCEPT !.collectedUsernames = @ \cup {normalized}]

RECURSIVE ProcessPage(_, _, _, _)
ProcessPage(st, existing, baseUserId, page) ==
    IF page = <<>> THEN st
    ELSE ProcessPage(ProcessFollowing(st, existing, baseUserId, Head(page)),
                     existing, baseUserId, Tail(page))

\* lines 859-861: the collected handles, sorted
RECURSIVE SortedHandles(_)
SortedHandles(S) ==
    IF S = {} THEN <<>>
    ELSE LET m == CHOOSE x \in S : \A y \in S : HandleRank(x) <= HandleRank(y)
         IN  <<m>> \o SortedHandles(S \ {m})

\* the collector process before its start; history: seen is the set of
\* (seed, handle) pairs the pages it received carried
ColOff ==
    [pc |-> "off", baseUsers |-> <<>>, k |-> 1, token |-> 0, page |-> 0,
     existingUsernames |-> {}, collectedUsernames |-> {}, edges |-> <<>>,
     edgeDedup |-> {}, totalRequests |-> 0, totalFollowings |-> 0, seen |-> {},
     failed |-> {}]

\* no collector, no artifact, no followings
ColIdle ==
    /\ col = ColOff
    /\ artifact = Null
    /\ xfollowing = [f \in Followers |-> <<>>]

\* the seeds: the rows flagged as base users, with a resolved external id
BaseUsers(us) == SortedSeq({i \in DOMAIN us : i \in Followers /\ us[i].xUserId # Null})

\* the page the enumeration returns for a cursor, and the next cursor
FollowingPage(seed, tok) ==
    LET p == IF tok = 0 THEN 1 ELSE tok
    IN  [data |-> IF p <= Len(xfollowing[seed]) THEN xfollowing[seed][p] ELSE <<>>,
         next_token |-> IF p < Len(xfollowing[seed]) THEN p + 1 ELSE 0]

\* lines 725-789: the seeds and the known handles are loaded
ColStart ==
    /\ col.pc = "off"
    /\ col' = IF BaseUsers(users) = <<>>
              THEN [col EXCEPT !.pc = "done"]
              ELSE [col EXCEPT !.pc = "fetch", !.baseUsers = BaseUsers(users),
                               !.existingUsernames = ExistingUsernames(users)]
    /\ UNCHANGED <<sel, pv, netVars, users, api, messages, progress, wk, orch, runs, lastReq,
                   syncedIn, lastUpsert, embVars, ingVars, artifact, xfollowing>>

\* a failed page ends the collector
NextSeedStopsCollector(c) ==
    [c EXCEPT !.k = @ + 1, !.token = 0, !.page = 0,
              !.pc = IF c.k + 1 > Len(c.baseUsers) THEN "write"
                     ELSE IF c.failed # {} THEN "done" ELSE "fetch"]

\* after the last page of a seed, or a failed one, the next seed is taken
NextSeed(c) ==
    [c EXCEPT !.k = @ + 1, !.token = 0, !.page = 0,
              !.pc = IF c.k + 1 > Len(c.baseUsers) THEN "write" ELSE "fetch"]

\* lines 800-850: a page of followings is received and its users are recorded
ColFetchOk ==
    /\ col.pc = "fetch"
    /\ LET seed == col.baseUsers[col.k]
           r == FollowingPage(seed, col.token)
           c1 == ProcessPage([col EXCEPT !.totalRequests = @ + 1, !.page = @ + 1],
                             col.existingUsernames, seed, r.data)
           c2 == [c1 EXCEPT !.token = r.next_token,
                            !.seen = @ \cup {<<seed, r.data[i]>> : i \in 1..Len(r.data)}]
       IN  col' = IF r.next_token = 0 THEN NextSeed(c2) ELSE c2
    /\ UNCHANGED <<sel, pv, netVars, users, api, messages, progress, wk, orch, runs, lastReq,
                   syncedIn, lastUpsert, embVars, ingVars, artifact, xfollowing>>

\* lines 851-855: the request throws, the pages of this seed end
ColFetchThrows ==
    /\ col.pc = "fetch"
    /\ col' = NextSeed([col EXCEPT !.totalRequests = @ + 1, !.page = @ + 1,
                                  !.failed = @ \cup {<<col.baseUsers[col.k],
                                                       col.page + 1>>}])
    /\ UNCHANGED <<sel, pv, netVars, users, api, messages, progress, wk, orch, runs, lastReq,
                   syncedIn, lastUpsert, embVars, ingVars, artifact, xfollowing>>

\* lines 863-876: the artifact is written
ColWrite ==
    /\ col.pc = "write"
    /\ artifact' = Some([usernames |-> SortedHandles(col.collectedUsernames),
                         edges |-> col.edges])
    /\ col' = [col EXCEPT !.pc = "done"]
    /\ UNCHANGED <<sel, pv, netVars, users, api, messages, progress, wk, orch, runs, lastReq,
                   syncedIn, lastUpsert, embVars, ingVars, xfollowing>>

----------------------------------------------------------------------------
(* The Post Embedding Worker: runEmbeddingWorker *)

\* the worker process before its start; batchSize is BATCH_SIZE, maxBatches
\* is MAX_BATCHES (Null when MESSAGE_EMBED_MAX_BATCHES is not set)
EmbOff(batchSize, maxBatches) ==
    [pc |-> "off", batchSize |-> batchSize, maxBatches |-> maxBatches, run |-> 0,
     batches |-> 0, rows |-> <<>>, totalEmbedded |-> 0, err |-> Null]

\* tweet_created_at of a post: within a timeline the first post is the newest
CreatedAt(t) == 0 - t

\* the selection as it would be without the test of embeddedAt
PendingIdsAll(msgs, us) ==
    {t \in TweetIds : /\ msgs[t] # Null
                      /\ Val(msgs[t]).userId \in DOMAIN us}

\* WHERE m."embeddedAt" IS NULL, joined with the row's user
PendingIds(msgs, us) ==
    {t \in TweetIds : /\ msgs[t] # Null
                      /\ Val(msgs[t]).userId \in DOMAIN us
                      /\ Val(msgs[t]).embeddedAt = Null}

\* ORDER BY m."tweet_created_at" DESC
RECURSIVE NewestFirst(_)
NewestFirst(S) ==
    IF S = {} THEN <<>>
    ELSE LET m == CHOOSE x \in S : \A y \in S : CreatedAt(x) >= CreatedAt(y)
         IN  <<m>> \o NewestFirst(S \ {m})

\* fetchPendingMessages as it would be if it passed over the posts that carry
\* an error
FetchPendingMessagesSkipsFailed(msgs, us, limit) ==
    LET ids == Take(NewestFirst({t \in PendingIds(msgs, us) :
                                    Val(msgs[t]).embeddingError = Null}), limit)
    IN  [i \in 1..Len(ids) |-> [tweet_id |-> ids[i], text |-> Val(msgs[ids[i]]).text]]

\* fetchPendingMessages: the rows as they are read, each with its text
FetchPendingMessages(msgs, us, limit) ==
    LET ids == Take(NewestFirst(PendingIds(msgs, us)), limit)
    IN  [i \in 1..Len(ids) |-> [tweet_id |-> ids[i], text |-> Val(msgs[ids[i]]).text]]

\* the SET clause as it would be if it stamped embeddedAt whatever the error
MarkEmbeddedRowAlwaysStamps(m, version, error, now) ==
    [m EXCEPT !.embeddedAt = Some(now),
              !.embeddingError = error,
              !.embeddingVersion = IF error = Null THEN Some(version) ELSE Null]

\* the SET clause as it would be if it left embedding_version alone
MarkEmbeddedRowNoVersion(m, version, error, now) ==
    [m EXCEPT !.embeddedAt = IF error = Null THEN Some(now) ELSE m.embeddedAt,
              !.embeddingError = error]

\* the SET clause of markEmbedded, for one row
MarkEmbeddedRow(m, version, error, now) ==
    [m EXCEPT !.embeddedAt = IF error = Null THEN Some(now) ELSE m.embeddedAt,
              !.embeddingError = error,
              !.embeddingVersion = IF error = Null THEN Some(version) ELSE Null]

\* markEmbedded: UPDATE ... WHERE "tweet_id" = ANY($1)
MarkEmbedded(msgs, ids, version, error, now) ==
    [t \in TweetIds |->
        IF t \in ids /\ msgs[t] # Null
        THEN Some(MarkEmbeddedRow(Val(msgs[t]), version, error, now))
        ELSE msgs[t]]

EMBED_MODEL == "text-embedding-3-large"

RowIds(rows) == {rows[i].tweet_id : i \in 1..Len(rows)}

\* lines 478-486: the worker is started (again)
EmbStart ==
    /\ emb.pc \in {"off", "done", "failed"}
    /\ emb.run < MaxRuns
    /\ emb' = [EmbOff(emb.batchSize, emb.maxBatches) EXCEPT
                  !.pc = "loop", !.run = emb.run + 1]
    /\ UNCHANGED <<sel, pv, netVars, colVars, ingVars, users, api, messages, progress, wk, orch, runs, lastReq, syncedIn,
                   lastUpsert, vectors, edits>>

\* lines 411-423: the batch limit is tested and the pending rows are read
EmbFetchPending ==
    /\ emb.pc = "loop"
    /\ LET rows == FetchPendingMessages(messages, users, emb.batchSize)
       IN  emb' = IF emb.maxBatches # Null /\ emb.batches >= Val(emb.maxBatches)
                  THEN [emb EXCEPT !.pc = "done"]
                  ELSE IF rows = <<>>
                  THEN [emb EXCEPT !.pc = "done"]
                  ELSE [emb EXCEPT !.pc = "embed", !.rows = rows,
                                   !.batches = emb.batches + 1]
    /\ UNCHANGED <<sel, pv, netVars, colVars, ingVars, users, api, messages, progress, wk, orch, runs, lastReq, syncedIn,
                   lastUpsert, vectors, edits>>

\* lines 425-447: embedMany answers with one embedding per row
EmbEmbedOk ==
    /\ emb.pc = "embed"
    /\ emb' = [emb EXCEPT !.pc = "upsert"]
    /\ UNCHANGED <<sel, pv, netVars, colVars, ingVars, users, api, messages, progress, wk, orch, runs, lastReq, syncedIn,
                   lastUpsert, vectors, edits>>

\* lines 426-429, 478-486: embedMany throws, outside the try block: the run
\* rejects and the process exits 1
EmbEmbedThrows ==
    /\ emb.pc = "embed"
    /\ emb' = [emb EXCEPT !.pc = "failed"]
    /\ UNCHANGED <<sel, pv, netVars, colVars, ingVars, users, api, messages, progress, wk, orch, runs, lastReq, syncedIn,
                   lastUpsert, vectors, edits>>

\* line 450: the vectors are upserted into the index
EmbUpsertOk ==
    /\ emb.pc = "upsert"
    /\ vectors' = [t \in TweetIds |->
          IF t \in RowIds(emb.rows)
          THEN Some((CHOOSE r \in {emb.rows[i] : i \in 1..Len(emb.rows)} :
                        r.tweet_id = t).text)
          ELSE vectors[t]]
    /\ emb' = [emb EXCEPT !.pc = "mark"]
    /\ UNCHANGED <<sel, pv, netVars, colVars, ingVars, users, api, messages, progress, wk, orch, runs, lastReq, syncedIn,
                   lastUpsert, edits>>

\* lines 450, 460-462: the upsert of the vectors throws
EmbUpsertThrows ==
    /\ emb.pc = "upsert"
    /\ emb' = [emb EXCEPT !.pc = "markError", !.err = Some("Pinecone upsert failed")]
    /\ UNCHANGED <<sel, pv, netVars, colVars, ingVars, users, api, messages, progress, wk, orch, runs, lastReq, syncedIn,
                   lastUpsert, vectors, edits>>

\* lines 451-459: the rows of the batch are marked embedded
EmbMarkEmbedded ==
    /\ emb.pc = "mark"
    /\ messages' = MarkEmbedded(messages, RowIds(emb.rows), EMBED_MODEL, Null, emb.run)
    /\ emb' = [emb EXCEPT !.pc = "loop",
                          !.totalEmbedded = emb.totalEmbedded + Len(emb.rows)]
    /\ UNCHANGED <<sel, pv, netVars, colVars, ingVars, users, api, progress, wk, orch, runs, lastReq, syncedIn,
                   lastUpsert, vectors, edits>>

\* lines 463-469: the rows of the batch are marked with the error and the
\* loop ends
EmbMarkError ==
    /\ emb.pc = "markError"
    /\ messages' = MarkEmbedded(messages, RowIds(emb.rows), EMBED_MODEL, emb.err, emb.run)
    /\ emb' = [emb EXCEPT !.pc = "done"]
    /\ UNCHANGED <<sel, pv, netVars, colVars, ingVars, users, api, progress, wk, orch, runs, lastReq, syncedIn,
                   lastUpsert, vectors, edits>>

----------------------------------------------------------------------------
(* The Post Fetch Worker: runMessageFetchWorker *)

\* a worker process that is not running
WorkerOff(cfg) ==
    [pc |-> "off", cfg |-> cfg, run |-> 0, assigned |-> {}, targets |-> <<>>,
     cur |-> 0,
     token |-> 0, reqToken |-> 0, page |-> 0, fetchedForUser |-> 0, newestId |-> Null,
     oldestId |-> Null, completedFullHistory |-> FALSE, resp |-> <<>>,
     respMeta |-> [newest_id |-> Null, oldest_id |-> Null], err |-> Null,
     doneTokens |-> {},    \* history: the tokens of the pages upserted for cur
     erred |-> {}]         \* history: the entities whose page loop threw in this run

\* the guards at the top of the pagination loop (lines 354-365); a cap of 0
\* is falsy and does not limit
CapReached(cfg, page, fetched) ==
    \/ cfg.maxPagesPerUser # 0 /\ page >= cfg.maxPagesPerUser
    \/ cfg.maxTweetsPerUser # 0 /\ fetched >= cfg.maxTweetsPerUser

\* the test of the configuration as it would be without the test of the token
ConfigOkIgnoresToken(cfg) ==
    ~(cfg.workerIndex < 0 \/ cfg.workerIndex >= cfg.workerTotal)

\* lines 273-281 (and run-workers.ts 70-75): the configuration is accepted
ConfigOk(cfg) ==
    /\ cfg.token
    /\ ~(cfg.workerIndex < 0 \/ cfg.workerIndex >= cfg.workerTotal)

\* the process is running: not cut off by process.exit of the orchestrator
Live(w) == wk[w].pc \notin {"off", "done", "failed", "killed"}

\* run-workers.ts 67-102: Promise.all has rejected because a worker failed;
\* main's catch calls process.exit(1) before any further I/O completes
Rejected == orch = "running" /\ \E w \in Workers : wk[w].pc = "failed"

\* worker w stands at suspension point p and its process goes on
At(w, p) == wk[w].pc = p /\ ~Rejected

\* lines 259-291: the synchronous start of a run, up to the users query
Launched(w, r) ==
    IF ConfigOk(wk[w].cfg)
    THEN [WorkerOff(wk[w].cfg) EXCEPT !.pc = "query", !.run = r]
    ELSE [WorkerOff(wk[w].cfg) EXCEPT !.pc = "failed", !.run = r]

\* the worker invoked directly (lines 432-476), also after a crash or a
\* completed run
StartRun(w) ==
    /\ orch = "none"
    /\ wk[w].pc \in {"off", "done", "failed"}
    /\ runs < MaxRuns
    /\ runs' = runs + 1
    /\ wk' = [wk EXCEPT ![w] = Launched(w, runs + 1)]
    /\ UNCHANGED <<sel, pv, netVars, colVars, ingVars, embVars, lastUpsert, users, api, messages, progress, orch, lastReq, syncedIn>>

\* lines 293-312: the users query answers
QueryUsers(w) ==
    /\ At(w, "query")
    /\ LET cfg == wk[w].cfg
           rows == SortedSeq(UsersQuery(users, cfg.workerTotal, cfg.workerIndex))
           targets == Take(rows, cfg.maxUsersPerRun)
       IN  wk' = [wk EXCEPT ![w].targets = targets,
                            ![w].assigned = {targets[i] : i \in 1..Len(targets)},
                            ![w].pc = IF targets = <<>> THEN "done" ELSE "target"]
    /\ UNCHANGED <<sel, pv, netVars, colVars, ingVars, embVars, lastUpsert, users, api, messages, progress, orch, runs, lastReq, syncedIn>>

\* the head of the page loop as it would be without the two cap tests
LoopTopNoCap(cfg, page, fetched) == "fetch"

\* where the loop stands once the locals are (page, fetched, token): at the
\* break of a cap, or about to request the next page
LoopTop(cfg, page, fetched) ==
    IF CapReached(cfg, page, fetched) THEN "final" ELSE "fetch"

\* lines 330-350: the next target is marked running, or the run completes
BeginTarget(w) ==
    /\ At(w, "target")
    /\ IF wk[w].targets = <<>>
       THEN /\ wk' = [wk EXCEPT ![w].pc = "done"]
            /\ UNCHANGED progress
       ELSE LET u == Head(wk[w].targets)
            IN  /\ progress' = [progress EXCEPT ![u] =
                      MarkProgressRow(progress[u], wk[w].cfg.shardKey, "running",
                          [NoUpdates EXCEPT !.runStarted = TRUE], wk[w].run)]
                /\ wk' = [wk EXCEPT ![w] =
                      [wk[w] EXCEPT !.targets = Tail(wk[w].targets), !.cur = u,
                                !.token = 0, !.page = 0, !.fetchedForUser = 0,
                                !.newestId = Null, !.oldestId = Null,
                                !.completedFullHistory = FALSE, !.resp = <<>>,
                                !.err = Null, !.doneTokens = {},
                                !.pc = LoopTop(wk[w].cfg, 0, 0)]]
    /\ UNCHANGED <<sel, pv, netVars, colVars, ingVars, embVars, lastUpsert, users, api, messages, orch, runs, lastReq, syncedIn>>

\* lines 367-397: a page is requested and its response received
FetchPageOk(w) ==
    /\ At(w, "fetch")
    /\ LET u == wk[w].cur
           r == ApiPage(api, u, wk[w].token)
           page == wk[w].page + 1
       IN  /\ lastReq' = Some([user |-> u, token |-> wk[w].token, run |-> wk[w].run])
           /\ wk' = [wk EXCEPT ![w] =
                 IF r.data # <<>>
                 THEN [wk[w] EXCEPT !.page = page, !.resp = r.data,
                                !.respMeta = [newest_id |-> r.newest_id,
                                              oldest_id |-> r.oldest_id],
                                !.reqToken = wk[w].token,
                                !.token = r.next_token, !.pc = "upsert"]
                 ELSE [wk[w] EXCEPT !.page = page, !.token = r.next_token,
                                !.reqToken = wk[w].token,
                                !.completedFullHistory = (r.next_token = 0),
                                !.pc = IF r.next_token = 0 THEN "final"
                                       ELSE LoopTop(wk[w].cfg, page,
                                                    wk[w].fetchedForUser)]]
    /\ UNCHANGED <<sel, pv, netVars, colVars, ingVars, embVars, lastUpsert, users, api, messages, progress, orch, runs, syncedIn>>

\* lines 371-375, 398-403: the request throws (a non-success status, or the
\* rate-limit retries are used up)
FetchPageThrows(w) ==
    /\ At(w, "fetch")
    /\ lastReq' = Some([user |-> wk[w].cur, token |-> wk[w].token, run |-> wk[w].run])
    /\ wk' = [wk EXCEPT ![w].page = @ + 1, ![w].err = Some("fetch failed"),
                        ![w].erred = @ \cup {wk[w].cur},
                        ![w].pc = "error"]
    /\ UNCHANGED <<sel, pv, netVars, colVars, ingVars, embVars, lastUpsert, users, api, messages, progress, orch, runs, syncedIn>>

\* lines 387-396: the page's posts are upserted
UpsertPage(w) ==
    /\ At(w, "upsert")
    /\ LET u == wk[w].cur
           tweets == wk[w].resp
           fetched == wk[w].fetchedForUser + Len(tweets)
       IN  /\ messages' = UpsertTweets(messages, u, tweets)
           /\ wk' = [wk EXCEPT ![w] =
                 [wk[w] EXCEPT !.fetchedForUser = fetched,
                           !.doneTokens = wk[w].doneTokens \cup {wk[w].reqToken},
                           !.newestId = Coalesce(wk[w].newestId,
                                Coalesce(wk[w].respMeta.newest_id, Some(tweets[1].id))),
                           !.oldestId = Coalesce(wk[w].respMeta.oldest_id,
                                Coalesce(Some(tweets[Len(tweets)].id), wk[w].oldestId)),
                           !.resp = <<>>,
                           !.completedFullHistory = (wk[w].token = 0),
                           !.pc = IF wk[w].token = 0 THEN "final"
                                  ELSE LoopTop(wk[w].cfg, wk[w].page, fetched)]]
    /\ lastUpsert' = [t \in TweetIds |->
          IF \E i \in 1..Len(wk[w].resp) : wk[w].resp[i].id = t /\ messages[t] # Null
          THEN LET tw == wk[w].resp[CHOOSE i \in 1..Len(wk[w].resp) :
                                        wk[w].resp[i].id = t]
               IN  Some([sameText |-> Val(messages[t]).text = tw.text,
                         sameLikes |-> Val(messages[t]).likes = tw.likes,
                         wasEmbedded |-> Val(messages[t]).embeddedAt # Null])
          ELSE lastUpsert[t]]
    /\ UNCHANGED <<sel, pv, netVars, colVars, ingVars, embVars, users, api, progress, orch, runs, lastReq, syncedIn>>

\* history: the progress mark of worker w records the pages it upserted
Recorded(w) ==
    [syncedIn EXCEPT ![wk[w].cur] =
        [tok \in Tokens |->
            IF tok \in wk[w].doneTokens /\ syncedIn[wk[w].cur][tok] = 0
            THEN wk[w].run ELSE syncedIn[wk[w].cur][tok]]]

\* lines 414-420: the entity's run is recorded as idle
MarkFinal(w) ==
    /\ At(w, "final")
    /\ progress' = [progress EXCEPT ![wk[w].cur] =
          MarkProgressRow(progress[wk[w].cur], wk[w].cfg.shardKey, "idle",
              [NoUpdates EXCEPT !.totalFetchedDelta = wk[w].fetchedForUser,
                                !.newestId = wk[w].newestId,
                                !.oldestId = wk[w].oldestId,
                                !.hadFullSync = wk[w].completedFullHistory],
              wk[w].run)]
    /\ wk' = [wk EXCEPT ![w].pc = "target"]
    /\ syncedIn' = Recorded(w)
    /\ UNCHANGED <<sel, pv, netVars, colVars, ingVars, embVars, lastUpsert, users, api, messages, orch, runs, lastReq>>

\* lines 398-411: the entity's run is recorded as error
MarkError(w) ==
    /\ At(w, "error")
    /\ progress' = [progress EXCEPT ![wk[w].cur] =
          MarkProgressRow(progress[wk[w].cur], wk[w].cfg.shardKey, "error",
              [NoUpdates EXCEPT !.totalFetchedDelta = wk[w].fetchedForUser,
                                !.newestId = wk[w].newestId,
                                !.oldestId = wk[w].oldestId,
                                !.error = wk[w].err,
                                !.hadFullSync = wk[w].completedFullHistory],
              wk[w].run)]
    /\ wk' = [wk EXCEPT ![w].pc = "target"]
    /\ syncedIn' = Recorded(w)
    /\ UNCHANGED <<sel, pv, netVars, colVars, ingVars, embVars, lastUpsert, users, api, messages, orch, runs, lastReq>>

\* the process dies at one of its suspension points
Crash(w) ==
    /\ orch = "none"
    /\ Live(w)
    /\ wk' = [wk EXCEPT ![w] = WorkerOff(@.cfg)]
    /\ UNCHANGED <<sel, pv, netVars, colVars, ingVars, embVars, lastUpsert, users, api, messages, progress, orch, runs, lastReq, syncedIn>>

----------------------------------------------------------------------------
(* One Post Fetch Worker run from the command line, crashed and rerun *)

EmptyMessages == [t \in TweetIds |-> Null]
EmptyProgress == [u \in UserIds |-> Null]

\* the users 1 and 2 have an external id, the others are pending resolution
TwoResolved == [u \in UserIds |-> [xUserId |-> IF u <= 2 THEN Some(u) ELSE Null]]

FixedApi(np) ==
    [npages |-> np, text |-> [t \in TweetIds |-> "a"], likes |-> [t \in TweetIds |-> 0]]

\* the configurations of a single worker over the whole table: no cap, a cap
\* on pages, or a cap on posts
CliConfigs ==
    {cfg \in [token : {TRUE}, workerIndex : {0}, workerTotal : {1},
              shardKey : {"w1"}, maxPagesPerUser : 0..MaxCap,
              maxUsersPerRun : {MaxUserId}, maxTweetsPerUser : 0..MaxCap] :
        cfg.maxPagesPerUser = 0 \/ cfg.maxTweetsPerUser = 0}


InitFetch ==
    /\ users = TwoResolved
    /\ api \in {FixedApi(np) : np \in
                    {f \in [UserIds -> 0..NumPages] : \A u \in UserIds : u > 2 => f[u] = 0}}
    /\ messages = EmptyMessages
    /\ progress = EmptyProgress
    /\ \E cfg \in CliConfigs :
          wk = [w \in Workers |-> WorkerOff(cfg)]
    /\ orch = "none"
    /\ runs = 0
    /\ lastReq = Null
    /\ syncedIn = [u \in UserIds |-> [tok \in Tokens |-> 0]]
    /\ lastUpsert = [t \in TweetIds |-> Null]
    /\ emb = EmbOff(PerPage, Null)
    /\ vectors = [t \in TweetIds |-> Null]
    /\ edits = 0
    /\ IngIdle
    /\ ColIdle
    /\ NetIdle
    /\ pv = PvOff
    /\ sel = SelOff(1)

NextFetch ==
    \/ StartRun(1)
    \/ QueryUsers(1)
    \/ BeginTarget(1)
    \/ FetchPageOk(1)
    \/ FetchPageThrows(1)
    \/ UpsertPage(1)
    \/ MarkFinal(1)
    \/ MarkError(1)
    \/ Crash(1)

SpecFetch == InitFetch /\ [][NextFetch]_vars

\* upstream, the text or the engagement counters of a post change
EditUpstream(t) ==
    /\ edits < MaxEdits
    /\ edits' = edits + 1
    /\ \E txt \in {"a", "b"}, lk \in {0, 1} :
          /\ <<txt, lk>> # <<api.text[t], api.likes[t]>>
          /\ api' = [api EXCEPT !.text[t] = txt, !.likes[t] = lk]
    /\ UNCHANGED <<sel, pv, netVars, colVars, ingVars, users, messages, progress, wk, orch, runs, lastReq, syncedIn,
                   lastUpsert, emb, vectors>>

----------------------------------------------------------------------------
(* A Post Fetch Worker rerun beside the Post Embedding Worker, while posts
   are edited upstream *)

\* one resolved user with one page of posts
InitPipeline ==
    /\ users = [u \in UserIds |-> [xUserId |-> IF u = 1 THEN Some(u) ELSE Null]]
    /\ api = FixedApi([u \in UserIds |-> IF u = 1 THEN 1 ELSE 0])
    /\ messages = EmptyMessages
    /\ progress = EmptyProgress
    /\ wk = [w \in Workers |->
               WorkerOff([token |-> TRUE, workerIndex |-> 0, workerTotal |-> 1,
                          shardKey |-> "w1", maxPagesPerUser |-> 0,
                          maxUsersPerRun |-> MaxUserId, maxTweetsPerUser |-> 0])]
    /\ orch = "none"
    /\ runs = 0
    /\ lastReq = Null
    /\ syncedIn = [u \in UserIds |-> [tok \in Tokens |-> 0]]
    /\ lastUpsert = [t \in TweetIds |-> Null]
    /\ emb \in {EmbOff(1, Null), EmbOff(PerPage, Some(1))}
    /\ vectors = [t \in TweetIds |-> Null]
    /\ edits = 0
    /\ IngIdle
    /\ ColIdle
    /\ NetIdle
    /\ pv = PvOff
    /\ sel = SelOff(1)

NextPipeline ==
    \/ StartRun(1)
    \/ QueryUsers(1)
    \/ BeginTarget(1)
    \/ FetchPageOk(1)
    \/ UpsertPage(1)
    \/ MarkFinal(1)
    \/ EditUpstream(TweetId(1, 1, 1))
    \/ EmbStart
    \/ EmbFetchPending
    \/ EmbEmbedOk
    \/ EmbEmbedThrows
    \/ EmbUpsertOk
    \/ EmbUpsertThrows
    \/ EmbMarkEmbedded
    \/ EmbMarkError

SpecPipeline == InitPipeline /\ [][NextPipeline]_vars

----------------------------------------------------------------------------
(* The Worker Orchestrator: run-workers.ts main *)

\* lines 67-89: every definition's callback runs up to its first await; a
\* definition whose token is missing rejects at once
OrchLaunch ==
    /\ orch = "init"
    /\ orch' = "running"
    /\ runs' = 1
    /\ wk' = [w \in Workers |-> Launched(w, 1)]
    /\ UNCHANGED <<sel, pv, netVars, colVars, ingVars, embVars, lastUpsert, users, api, messages, progress, lastReq, syncedIn>>

\* a statement of worker w is rejected by the database: outside the try
\* block (the users query, the running mark, the final mark, the error mark
\* of the catch block) the run rejects; the upsert of a page is inside it and
\* is caught (lines 352-403)
StatementFails(w) ==
    /\ orch = "running"
    /\ \/ At(w, "query")
       \/ At(w, "target") /\ wk[w].targets # <<>>
       \/ At(w, "final")
       \/ At(w, "error")
       \/ At(w, "upsert")
    /\ wk' = [wk EXCEPT ![w] =
          IF wk[w].pc = "upsert"
          THEN [wk[w] EXCEPT !.pc = "error", !.err = Some("statement failed"),
                             !.erred = @ \cup {wk[w].cur}, !.resp = <<>>]
          ELSE [wk[w] EXCEPT !.pc = "failed"]]
    /\ UNCHANGED <<sel, pv, netVars, colVars, ingVars, embVars, lastUpsert, users, api, messages, progress, orch, runs, lastReq, syncedIn>>

\* lines 90-102: Promise.all settles: rejected by the first failed worker
\* (process.exit(1) ends every worker still running), or fulfilled when all
\* workers completed (process.exit(0))
OrchExit ==
    /\ orch = "running"
    /\ IF Rejected
       THEN /\ orch' = "exit1"
            /\ wk' = [w \in Workers |->
                        IF Live(w) THEN [wk[w] EXCEPT !.pc = "killed"] ELSE wk[w]]
       ELSE /\ \A w \in Workers : wk[w].pc = "done"
            /\ orch' = "exit0"
            /\ wk' = wk
    /\ UNCHANGED <<sel, pv, netVars, colVars, ingVars, embVars, lastUpsert, users, api, messages, progress, runs, lastReq, syncedIn>>

\* the worker definitions of MESSAGE_WORKERS_CONFIG: parseWorkerConfig returns
\* the parsed list as it is
OrchConfigs(name) ==
    [token : BOOLEAN, workerIndex : 0..MaxTotal, workerTotal : 1..MaxTotal,
     shardKey : {name}, maxPagesPerUser : {0}, maxUsersPerRun : {MaxUserId},
     maxTweetsPerUser : {0}]

WorkerName(w) == IF w = 1 THEN "w1" ELSE "w2"

InitOrch ==
    /\ users \in [UserIds -> {[xUserId |-> Null]} \cup {[xUserId |-> Some(i)] : i \in UserIds}]
    /\ \A u \in UserIds : users[u].xUserId \in {Null, Some(u)}
    /\ api = FixedApi([u \in UserIds |-> 1])
    /\ messages = EmptyMessages
    /\ progress = EmptyProgress
    /\ \E defs \in [Workers -> UNION {OrchConfigs(WorkerName(w)) : w \in Workers}] :
          /\ \A w \in Workers : defs[w].shardKey = WorkerName(w)
          /\ wk = [w \in Workers |-> WorkerOff(defs[w])]
    /\ orch = "init"
    /\ runs = 0
    /\ lastReq = Null
    /\ syncedIn = [u \in UserIds |-> [tok \in Tokens |-> 0]]
    /\ lastUpsert = [t \in TweetIds |-> Null]
    /\ emb = EmbOff(PerPage, Null)
    /\ vectors = [t \in TweetIds |-> Null]
    /\ edits = 0
    /\ IngIdle
    /\ ColIdle
    /\ NetIdle
    /\ pv = PvOff
    /\ sel = SelOff(1)

NextOrch ==
    \/ OrchLaunch
    \/ OrchExit
    \/ \E w \in Workers :
          \/ QueryUsers(w)
          \/ BeginTarget(w)
          \/ FetchPageOk(w)
          \/ FetchPageThrows(w)
          \/ UpsertPage(w)
          \/ MarkFinal(w)
          \/ MarkError(w)
          \/ StatementFails(w)

SpecOrch == InitOrch /\ [][NextOrch]_vars

----------------------------------------------------------------------------
(* One Graph Ingestor, run and rerun on one batch artifact *)

\* an artifact as the collector writes it: every edge intent targets a
\* candidate or an entity that is known already
InitIngest ==
    /\ \E known \in KnownLists, tw \in {Null} \cup {Some(h) : h \in RawHandles} :
          users = UsersWith(known, tw)
    /\ xprofiles \in ProfileLookups
    /\ following = {}
    /\ \E usernames \in UsernameLists :
       \E edges \in SUBSET [followerDbId : Followers, followingUsername : RawHandles] :
          /\ \A e \in edges :
                \/ \E i \in DOMAIN usernames : usernames[i] = e.followingUsername
                \/ EntitiesOf(users, Lower(e.followingUsername)) # {}
          /\ ing = IngOff([usernames |-> usernames, edges |-> edges])
    /\ api = FixedApi([u \in UserIds |-> 0])
    /\ messages = EmptyMessages
    /\ progress = EmptyProgress
    /\ wk = [w \in Workers |->
               WorkerOff([token |-> TRUE, workerIndex |-> 0, workerTotal |-> 1,
                          shardKey |-> "w1", maxPagesPerUser |-> 0,
                          maxUsersPerRun |-> MaxUserId, maxTweetsPerUser |-> 0])]
    /\ orch = "none"
    /\ runs = 0
    /\ lastReq = Null
    /\ syncedIn = [u \in UserIds |-> [tok \in Tokens |-> 0]]
    /\ lastUpsert = [t \in TweetIds |-> Null]
    /\ emb = EmbOff(PerPage, Null)
    /\ vectors = [t \in TweetIds |-> Null]
    /\ edits = 0
    /\ ColIdle
    /\ NetIdle
    /\ pv = PvOff
    /\ sel = SelOff(1)

NextIngest ==
    \/ IngStart
    \/ IngReuseCached
    \/ IngLookup
    \/ IngSkipMissing
    \/ IngReuseCanonical
    \/ IngStore
    \/ IngStoreThrows
    \/ IngFlush

SpecIngest == InitIngest /\ [][NextIngest]_vars

\* Collector runs: a store of seeds and known entities, an enumeration whose
\* pages list distinct handles.
PageLists ==
    UNION {[1..n -> {p \in UNION {[1..m -> ColHandles] : m \in 0..PerPage} :
                       \A i, j \in DOMAIN p : i # j => p[i] # p[j]}] :
             n \in 1..NumPages}

InitCollect ==
    /\ \E known \in KnownLists : users = UsersWith(known, Null)
    /\ \E pages \in PageLists, second \in {<<"Bob">>, <<"bobby">>} :
          xfollowing = [f \in Followers |-> IF f = 1 THEN pages ELSE <<second>>]
    /\ col = ColOff
    /\ artifact = Null
    /\ IngIdle
    /\ NetIdle
    /\ pv = PvOff
    /\ sel = SelOff(1)
    /\ api = FixedApi([u \in UserIds |-> 0])
    /\ messages = EmptyMessages
    /\ progress = EmptyProgress
    /\ wk = [w \in Workers |->
               WorkerOff([token |-> TRUE, workerIndex |-> 0, workerTotal |-> 1,
                          shardKey |-> "w1", maxPagesPerUser |-> 0,
                          maxUsersPerRun |-> MaxUserId, maxTweetsPerUser |-> 0])]
    /\ orch = "none"
    /\ runs = 0
    /\ lastReq = Null
    /\ syncedIn = [u \in UserIds |-> [tok \in Tokens |-> 0]]
    /\ lastUpsert = [t \in TweetIds |-> Null]
    /\ emb = EmbOff(PerPage, Null)
    /\ vectors = [t \in TweetIds |-> Null]
    /\ edits = 0

NextCollect ==
    \/ ColStart
    \/ ColFetchOk
    \/ ColFetchThrows
    \/ ColWrite

SpecCollect == InitCollect /\ [][NextCollect]_vars

\* the variables of the worker, orchestrator, pipeline, ingestor and collector
\* specifications, at rest
OthersIdle ==
    /\ users = UsersWith(<<>>, Null)
    /\ pv = PvOff
    /\ sel = SelOff(1)
    /\ ColIdle
    /\ IngIdle
    /\ api = FixedApi([u \in UserIds |-> 0])
    /\ messages = EmptyMessages
    /\ progress = EmptyProgress
    /\ wk = [w \in Workers |->
               WorkerOff([token |-> TRUE, workerIndex |-> 0, workerTotal |-> 1,
                          shardKey |-> "w1", maxPagesPerUser |-> 0,
                          maxUsersPerRun |-> MaxUserId, maxTweetsPerUser |-> 0])]
    /\ orch = "none"
    /\ runs = 0
    /\ lastReq = Null
    /\ syncedIn = [u \in UserIds |-> [tok \in Tokens |-> 0]]
    /\ lastUpsert = [t \in TweetIds |-> Null]
    /\ emb = EmbOff(PerPage, Null)
    /\ vectors = [t \in TweetIds |-> Null]
    /\ edits = 0

\* One worker's rate limiter: any budget, the clock at any time of the first
\* window.
InitLimiter ==
    /\ \E budget \in 1..MaxBudget, now \in 0..WINDOW_MS : lim = LimOff(budget, now)
    /\ req = ReqOff
    /\ OthersIdle

NextLimiter ==
    \/ Tick
    \/ WaitForSlot
    \/ WaitForSlotWake

SpecLimiter == InitLimiter /\ [][NextLimiter]_vars

\* Calls of the three operations, answered in every way.
InitRetry ==
    /\ lim = LimOff(1, 0)
    /\ req = ReqOff
    /\ OthersIdle

NextRetry ==
    \/ \E op \in {"profile", "edges", "posts"} : ReqCall(op)
    \/ ReqOk
    \/ \E retryAfter \in {Null, Some(1)} : ReqRateLimited(retryAfter)
    \/ ReqRetry
    \/ \E status \in {404, 500} : ReqFails(status)

SpecRetry == InitRetry /\ [][NextRetry]_vars

\* The page loop of one worker against the clock: slots, requests, rate-limit
\* answers with and without a Retry-After header, retries.
InitPageLoop ==
    /\ \E budget \in 1..MaxBudget : lim = LimOff(budget, WINDOW_MS)
    /\ req = ReqOff
    /\ OthersIdle

NextPageLoop ==
    \/ Tick
    \/ PageLoopWaitForSlot
    \/ PageLoopWake
    \/ \E retryAfter \in {Null, Some(1)} : PageRateLimited(retryAfter)
    \/ PageRetry
    \/ ReqOk

SpecPageLoop == InitPageLoop /\ [][NextPageLoop]_vars

\* The Post Embedding Worker alone on a table of posts, every call succeeding:
\* each post of the first page of user 1 is absent, pending, pending with the
\* error of an earlier run, or embedded.
StoredPost(kind) ==
    [text |-> "a", likes |-> 0, userId |-> 1,
     embeddedAt |-> IF kind = "embedded" THEN Some(0) ELSE Null,
     embeddingError |-> IF kind = "failed" THEN Some("Pinecone upsert failed") ELSE Null,
     embeddingVersion |-> IF kind = "embedded" THEN Some(EMBED_MODEL) ELSE Null]

InitEmbed ==
    /\ users = TwoResolved
    /\ \E kinds \in [1..PerPage -> {"absent", "pending", "failed", "embedded"}] :
          messages = [t \in TweetIds |->
             IF \E k \in 1..PerPage : t = TweetId(1, 1, k) /\ kinds[k] # "absent"
             THEN Some(StoredPost(kinds[CHOOSE k \in 1..PerPage : t = TweetId(1, 1, k)]))
             ELSE Null]
    /\ \E b \in 1..PerPage, mb \in {Null, Some(1)} : emb = EmbOff(b, mb)
    /\ api = FixedApi([u \in UserIds |-> IF u = 1 THEN 1 ELSE 0])
    /\ progress = EmptyProgress
    /\ wk = [w \in Workers |->
               WorkerOff([token |-> TRUE, workerIndex |-> 0, workerTotal |-> 1,
                          shardKey |-> "w1", maxPagesPerUser |-> 0,
                          maxUsersPerRun |-> MaxUserId, maxTweetsPerUser |-> 0])]
    /\ orch = "none"
    /\ runs = 0
    /\ lastReq = Null
    /\ syncedIn = [u \in UserIds |-> [tok \in Tokens |-> 0]]
    /\ lastUpsert = [t \in TweetIds |-> Null]
    /\ vectors = [t \in TweetIds |-> Null]
    /\ edits = 0
    /\ IngIdle
    /\ ColIdle
    /\ NetIdle
    /\ pv = PvOff
    /\ sel = SelOff(1)

NextEmbed ==
    \/ EmbStart
    \/ EmbFetchPending
    \/ EmbEmbedOk
    \/ EmbUpsertOk
    \/ EmbMarkEmbedded

\* the worker process is scheduled as long as it has a step to take
SpecEmbed == InitEmbed /\ [][NextEmbed]_vars /\ WF_vars(NextEmbed)

\* The embedding step of two profiles, the embedding service and the index
\* answering in every way.
InitProfileVector ==
    /\ NetIdle
    /\ OthersIdle

NextProfileVector ==
    \/ PvStart
    \/ \E answer \in EmbedAnswers : PvCreateEmbedding(answer)
    \/ \E accepted \in BOOLEAN : PvUpsert(accepted)

SpecProfileVector == InitProfileVector /\ [][NextProfileVector]_vars

\* The selection of the slice from artifacts of 1..MaxCandidates usernames.
InitSlice ==
    /\ \E n \in 1..MaxCandidates : sel = SelOff(n)
    /\ NetIdle
    /\ users = UsersWith(<<>>, Null)
    /\ pv = PvOff
    /\ ColIdle
    /\ IngIdle
    /\ api = FixedApi([u \in UserIds |-> 0])
    /\ messages = EmptyMessages
    /\ progress = EmptyProgress
    /\ wk = [w \in Workers |->
               WorkerOff([token |-> TRUE, workerIndex |-> 0, workerTotal |-> 1,
                          shardKey |-> "w1", maxPagesPerUser |-> 0,
                          maxUsersPerRun |-> MaxUserId, maxTweetsPerUser |-> 0])]
    /\ orch = "none"
    /\ runs = 0
    /\ lastReq = Null
    /\ syncedIn = [u \in UserIds |-> [tok \in Tokens |-> 0]]
    /\ lastUpsert = [t \in TweetIds |-> Null]
    /\ emb = EmbOff(PerPage, Null)
    /\ vectors = [t \in TweetIds |-> Null]
    /\ edits = 0

NextSlice ==
    \/ \E startIndex \in 0..MaxOption, limit \in OptionValues :
          SelSequential(startIndex, limit)
    \/ \E limit \in 1..MaxOption : SelNextWindow(limit)
    \/ \E o \in [startIndex : 0..MaxOption, limit : OptionValues,
                 randomize : {TRUE}, sampleSize : OptionValues,
                 ignoreFirst : OptionValues] : SelRandom(o)

SpecSlice == InitSlice /\ [][NextSlice]_vars

----------------------------------------------------------------------------
(* Claims about a worker that is crashed and rerun *)

\* C2: for every entity, total_fetched never exceeds the number of distinct
\* post ids stored for that entity, whatever runs, crashes and reruns happened
C2_NoDoubleCount ==
    \A u \in UserIds :
        progress[u] # Null =>
            Val(progress[u]).total_fetched <=
                Cardinality({t \in TweetIds : messages[t] # Null
                                               /\ Val(messages[t]).userId = u})

\* C3: no page is requested that a strictly earlier run already synced
\* (committed and recorded in the progress row) for that entity
C3_ResumesFromProgress ==
    lastReq # Null =>
        LET r == Val(lastReq)
        IN  syncedIn[r.user][r.token] = 0 \/ syncedIn[r.user][r.token] >= r.run

\* C4: in every step, a progress row stays, its total_fetched does not
\* decrease and its initial_sync_complete does not go from true to false
C4_ProgressMonotone ==
    [][\A u \in UserIds :
          progress[u] # Null =>
             /\ progress'[u] # Null
             /\ Val(progress'[u]).total_fetched >= Val(progress[u]).total_fetched
             /\ Val(progress[u]).initial_sync_complete
                    => Val(progress'[u]).initial_sync_complete]_vars

\* the last run has marked running an entity whose earlier run fetched posts
\* and completed the history
C4_Witness ==
    \E u \in UserIds :
        /\ progress[u] # Null
        /\ Val(progress[u]).status = "running"
        /\ Val(progress[u]).total_fetched > 0
        /\ Val(progress[u]).initial_sync_complete
        /\ Val(progress[u]).last_run_started_at = Some(MaxRuns)

----------------------------------------------------------------------------
(* Claims about sharding and the orchestrator *)

\* the entities with a resolved external id
Resolved == {u \in UserIds : users[u].xUserId # Null}

\* C1: for every shard total T >= 1 every resolved entity is selected by
\* exactly one index of [0, T), the shards are pairwise disjoint and their
\* union is the set of resolved entities; workers launched with one total
\* and different indices were assigned disjoint sets
C1_ShardPartition ==
    /\ \A T \in 1..MaxTotal :
          /\ \A u \in Resolved :
                Cardinality({i \in 0..(T - 1) : u \in UsersQuery(users, T, i)}) = 1
          /\ UNION {UsersQuery(users, T, i) : i \in 0..(T - 1)} = Resolved
          /\ \A i, j \in 0..(T - 1) :
                i # j => UsersQuery(users, T, i) \cap UsersQuery(users, T, j) = {}
    /\ \A v, w \in Workers :
          /\ wk[v].cfg.workerTotal = wk[w].cfg.workerTotal
          /\ wk[v].cfg.workerIndex # wk[w].cfg.workerIndex
          => wk[v].assigned \cap wk[w].assigned = {}

\* two workers of one total and both indices have received their shards,
\* neither empty, together the resolved entities
C1_Witness ==
    /\ wk[1].cfg.workerTotal = 2 /\ wk[2].cfg.workerTotal = 2
    /\ wk[1].cfg.workerIndex = 0 /\ wk[2].cfg.workerIndex = 1
    /\ wk[1].assigned # {} /\ wk[2].assigned # {}
    /\ wk[1].assigned \cup wk[2].assigned = Resolved

\* C5: when the orchestrator process has exited, every worker it launched
\* has run to its own end (completed or failed): none was cut off
C5_SiblingsRunToCompletion ==
    orch \in {"exit0", "exit1"} => \A w \in Workers : wk[w].pc \in {"done", "failed"}

\* C6: the entity sets of any two launched workers are disjoint
C6_LaunchedShardsDisjoint ==
    \A v, w \in Workers : v # w => wk[v].assigned \cap wk[w].assigned = {}

----------------------------------------------------------------------------
(* Embedding status of a post under re-upserts *)

\* the step of worker w that runs upsertTweets on the page it holds
UpsertStep(w) == wk[w].pc = "upsert" /\ wk'[w].pc \in {"fetch", "final"}

\* the posts of the page worker w holds that are stored already
Reupserted(w) ==
    {i \in 1..Len(wk[w].resp) : messages[wk[w].resp[i].id] # Null}

\* C7: under any interleaving of a Post Fetch Worker and the Post Embedding
\* Worker, no state has a post with embeddedAt set while the vector stored for
\* it was computed from a text other than the post's current text
C7_EmbeddedVectorIsOfCurrentText ==
    \A t \in TweetIds :
        (messages[t] # Null /\ Val(messages[t]).embeddedAt # Null)
            => (vectors[t] # Null /\ Val(vectors[t]) = Val(messages[t]).text)

\* C8: a re-upsert of a stored post with identical text leaves embeddedAt,
\* embeddingError and embeddingVersion as they were, whatever the other fields
C8_SameTextKeepsEmbeddingStatus ==
    [][\A w \in Workers : UpsertStep(w) =>
         \A i \in Reupserted(w) :
            LET tw == wk[w].resp[i]
                old == Val(messages[tw.id])
            IN  old.text = tw.text =>
                  /\ messages'[tw.id] # Null
                  /\ Val(messages'[tw.id]).embeddedAt = old.embeddedAt
                  /\ Val(messages'[tw.id]).embeddingError = old.embeddingError
                  /\ Val(messages'[tw.id]).embeddingVersion = old.embeddingVersion]_vars

\* an embedded post was re-upserted with the same text and another like
\* count, and is still embedded
C8_Witness ==
    \E t \in TweetIds :
        /\ lastUpsert[t] = Some([sameText |-> TRUE, sameLikes |-> FALSE,
                                 wasEmbedded |-> TRUE])
        /\ Val(messages[t]).embeddedAt # Null
        /\ Val(messages[t]).embeddingVersion = Some(EMBED_MODEL)

\* C9: a re-upsert of a stored post with another text stores the new text and
\* sets embeddedAt, embeddingError and embeddingVersion to null, so that the
\* next fetch of pending posts returns the post with its new text
C9_ChangedTextClearsEmbeddingStatus ==
    [][\A w \in Workers : UpsertStep(w) =>
         \A i \in Reupserted(w) :
            LET tw == wk[w].resp[i]
                old == Val(messages[tw.id])
                pending == FetchPendingMessages(messages', users', Cardinality(TweetIds))
            IN  old.text # tw.text =>
                  /\ messages'[tw.id] # Null
                  /\ Val(messages'[tw.id]).text = tw.text
                  /\ Val(messages'[tw.id]).embeddedAt = Null
                  /\ Val(messages'[tw.id]).embeddingError = Null
                  /\ Val(messages'[tw.id]).embeddingVersion = Null
                  /\ \E k \in 1..Len(pending) :
                        pending[k] = [tweet_id |-> tw.id, text |-> tw.text]]_vars

\* an embedded post was re-upserted with another text and is pending again
C9_Witness ==
    \E t \in TweetIds :
        /\ lastUpsert[t] # Null
        /\ ~Val(lastUpsert[t]).sameText
        /\ Val(lastUpsert[t]).wasEmbedded
        /\ Val(messages[t]).embeddedAt = Null
        /\ t \in PendingIds(messages, users)

----------------------------------------------------------------------------
(* Edge intents of the batch artifact *)

\* C10: after a run over the whole artifact, for every edge intent (f, h) and
\* every entity e that h, or the canonical handle h resolved to, maps to, the
\* edge (f, e) is in the edge store
C10_NoEdgeIntentDropped ==
    CleanRunDone =>
        \A d \in ing.batch.edges :
            LET h == Lower(d.followingUsername)
                c == ing.resolved[h]
                es == EntitiesOf(users, h) \cup
                      (IF c = Null THEN {} ELSE EntitiesOf(users, Val(c)))
            IN  \A e \in es : <<d.followerDbId, e>> \in following

\* C11: when the lookup of candidate h returns a canonical handle c # h that
\* maps to entity e already, no entity row is created and every edge intent
\* targeting h is upserted as an edge to e
C11_CanonicalKnownFlushesCandidate ==
    [][(/\ ing.pc = "fetched" /\ ing.x # Null /\ ing'.pc = "loop"
        /\ Lower(Val(ing.x).username) # Candidate
        /\ ing.existingUsers[Lower(Val(ing.x).username)] # Null
        /\ ing'.edgeFailures = ing.edgeFailures) =>
         /\ users' = users
         /\ \A f \in ing.edgeMap[Candidate] :
               <<f, Val(ing.existingUsers[Lower(Val(ing.x).username)])>> \in following']_vars

----------------------------------------------------------------------------
(* The entity store under ingestor runs *)

\* C12: after any sequence of ingestor runs no two rows of the entity store
\* carry the same non-null external id
C12_OneRowPerExternalId ==
    \A i, j \in DOMAIN users :
        (i # j /\ users[i].xUserId # Null) => users[i].xUserId # users[j].xUserId

\* C13: a rerun on the same artifact with the same profile payloads, after a
\* completed run, creates no entity row and no edge row and leaves the
\* profile fields of every entity as they were
C13_RerunChangesNothing ==
    (/\ ing.snap # Null
     /\ ing.errors = 0 /\ ing.edgeFailures = 0 /\ ing.lookupFailures = 0)
        => (users = Val(ing.snap).users /\ following = Val(ing.snap).following)

----------------------------------------------------------------------------
(* The edge store under repeated inserts *)

\* C14: inserting a pair that is stored already, in the same run or in a
\* later one, raises no error and leaves the pair in the store, which holds
\* one row per pair
C14_DuplicateEdgeIsNoOp ==
    (ing.lastInsert # Null /\ Val(ing.lastInsert).accepted) =>
        /\ ~Val(ing.lastInsert).raised
        /\ Val(ing.lastInsert).pairs \subseteq following
        /\ \A p \in Val(ing.lastInsert).pairs :
              Cardinality({q \in following : q = p}) = 1

\* a rerun upserted a pair that an earlier run had stored
C14_Witness ==
    /\ ing.run >= 2
    /\ ing.lastInsert # Null
    /\ Val(ing.lastInsert).accepted
    /\ Val(ing.lastInsert).dups # {}
    /\ Val(ing.lastInsert).dups \subseteq following

----------------------------------------------------------------------------
(* Completion of the history and the caps of a run *)

SyncComplete(row) == row # Null /\ Val(row).initial_sync_complete

\* C15: a run sets initial_sync_complete for an entity only after the API
\* returned a page without a next cursor; it sends no request once the page
\* cap or the post cap is reached, and a run stopped by a cap while a cursor
\* remains leaves initial_sync_complete as it was
C15_SyncCompleteOnlyWithoutCursor ==
    [][\A w \in Workers :
          LET u == wk[w].cur
          IN  /\ (wk'[w] # wk[w] /\ u \in UserIds
                     /\ SyncComplete(progress'[u]) /\ ~SyncComplete(progress[u]))
                    => /\ lastReq # Null
                       /\ Val(lastReq).user = u
                       /\ Val(lastReq).run = wk[w].run
                       /\ ApiPage(api, u, Val(lastReq).token).next_token = 0
              /\ (wk[w].pc = "fetch" /\ wk'[w].page = wk[w].page + 1)
                    => ~CapReached(wk[w].cfg, wk[w].page, wk[w].fetchedForUser)
              /\ (wk[w].pc = "final" /\ wk'[w].pc = "target" /\ wk[w].token # 0)
                    => /\ CapReached(wk[w].cfg, wk[w].page, wk[w].fetchedForUser)
                       /\ SyncComplete(progress'[u]) = SyncComplete(progress[u])]_vars

\* the post cap equals the size of a page; the first page came with a cursor
\* and the run of the entity ended after it, recorded as idle and not complete
C15_Witness ==
    \E w \in Workers :
        /\ wk[w].pc = "target"
        /\ wk[w].cfg.maxTweetsPerUser = PerPage
        /\ wk[w].page = 1 /\ wk[w].token # 0
        /\ wk[w].fetchedForUser = PerPage
        /\ wk[w].cur \in UserIds
        /\ progress[wk[w].cur] # Null
        /\ Val(progress[wk[w].cur]).status = "idle"
        /\ ~Val(progress[wk[w].cur]).initial_sync_complete

----------------------------------------------------------------------------
(* Failures of the Post Embedding Worker *)

\* C16: when the upsert of a batch into the vector index fails, every post of
\* the batch gets embeddingError set and keeps embeddedAt null, and the loop
\* ends without another fetch or batch
C16_UpsertFailureMarksBatchAndStops ==
    [][/\ (emb.pc = "upsert" /\ emb'.pc \notin {"upsert", "mark"})
            => (emb'.pc = "markError" /\ emb'.err # Null /\ emb'.rows = emb.rows)
       /\ (emb.pc = "markError" /\ emb' # emb)
            => /\ \A t \in RowIds(emb.rows) :
                     /\ messages'[t] # Null
                     /\ Val(messages'[t]).embeddingError = emb.err
                     /\ Val(messages'[t]).embeddedAt = Null
               /\ emb'.pc = "done"
               /\ emb'.batches = emb.batches
               /\ emb'.totalEmbedded = emb.totalEmbedded]_vars

\* a batch of one post failed at the vector index: the post carries the error
\* and is not embedded, the run is over and another post is still pending
C16_Witness ==
    /\ emb.pc = "done" /\ emb.err # Null /\ emb.batchSize = 1
    /\ \A t \in RowIds(emb.rows) :
          /\ Val(messages[t]).embeddingError = emb.err
          /\ Val(messages[t]).embeddedAt = Null
    /\ \E t \in PendingIds(messages, users) :
          t \notin RowIds(emb.rows) /\ Val(messages[t]).embeddingError = Null

\* lines 478-486: the exit status of the worker process, once it has ended
EmbExitCode ==
    IF emb.pc = "done" THEN Some(0)
    ELSE IF emb.pc = "failed" THEN Some(1)
    ELSE Null

\* C17: a Post Embedding Worker whose loop stopped because an upsert into the
\* vector index failed exits with a non-zero status
C17_UpsertFailureExitsNonZero ==
    (EmbExitCode # Null /\ emb.err # Null) => Val(EmbExitCode) # 0

\* C18: the artifact the collector writes lists each candidate handle once
\* (compared without case), lists no handle the store already knows, and
\* holds exactly one edge intent for each (seed, handle) pair the received
\* pages carried, however often the pages repeated it.
C18_ArtifactListsEachOnce ==
    artifact # Null =>
        LET a == Val(artifact)
            known == ExistingUsernames(users)
        IN  /\ \A i, j \in DOMAIN a.usernames :
                  i # j => Lower(a.usernames[i]) # Lower(a.usernames[j])
            /\ \A i \in DOMAIN a.usernames :
                  /\ Lower(a.usernames[i]) \notin known
                  /\ \E p \in col.seen : Lower(p[2]) = a.usernames[i]
            /\ \A p \in col.seen :
                  /\ Cardinality({i \in DOMAIN a.edges :
                        /\ a.edges[i].followerDbId = p[1]
                        /\ Lower(a.edges[i].followingUsername) = Lower(p[2])}) = 1
                  /\ Lower(p[2]) \notin known =>
                        \E i \in DOMAIN a.usernames : a.usernames[i] = Lower(p[2])
            /\ \A i \in DOMAIN a.edges :
                  \E p \in col.seen :
                     /\ p[1] = a.edges[i].followerDbId
                     /\ Lower(p[2]) = Lower(a.edges[i].followingUsername)

\* the pages of seed 1 are [bob, bobby], [bob]: two candidates, two edge
\* intents of seed 1
C18_Witness ==
    /\ artifact # Null
    /\ xfollowing[1] = << <<"bob", "bobby">>, <<"bob">> >>
    /\ col.totalRequests = 3
    /\ Val(artifact).usernames = <<"bob", "bobby">>
    /\ Cardinality({i \in DOMAIN Val(artifact).edges :
                       Val(artifact).edges[i].followerDbId = 1}) = 2

\* C19: with an integer budget of at least one request per window, two
\* consecutive slots of a worker's limiter are at least window/budget apart,
\* so the n-th slot comes at least (n-1) * window/budget after the first.
C19_SlotsAtLeastIntervalApart ==
    LET g == lim.grants
    IN  /\ \A i \in 1..(Len(g) - 1) : lim.budget * (g[i + 1] - g[i]) >= WINDOW_MS
        /\ Len(g) >= 1 =>
              lim.budget * (g[Len(g)] - g[1]) >= (Len(g) - 1) * WINDOW_MS

\* budget 3: three slots, each taken after a delay, exactly ceil(4/3) apart
C19_Witness ==
    /\ lim.budget = 3
    /\ Len(lim.grants) = 3
    /\ lim.waits >= 2
    /\ lim.grants[2] - lim.grants[1] = 2
    /\ lim.grants[3] - lim.grants[2] = 2

\* C20: no operation retries a rate-limited response more than MAX_RETRIES
\* times, and an operation gives up on a rate-limited response only after
\* MAX_RETRIES retries and then throws a rate-limit error to its caller.
C20_RateLimitExhaustedReachesCaller ==
    /\ req.attempt <= MAX_RETRIES
    /\ req.gaveUp =>
          /\ req.attempt = MAX_RETRIES
          /\ req.pc = "threw"
          /\ req.outcome = "RateLimit"

\* C21: a call that ended on a status that is neither success, not-found nor
\* rate-limited threw an error with the status to its caller; it did not
\* return.
C21_OtherFailureReachesCaller ==
    (req.pc \in {"returned", "threw"} /\ req.status = 500) =>
        /\ req.pc = "threw"
        /\ req.outcome = "ApiError"

\* C22: a call that ended on a not-found response returned the absent result
\* and threw nothing.
C22_NotFoundReturnsAbsent ==
    (req.pc \in {"returned", "threw"} /\ req.status = 404) =>
        /\ req.pc = "returned"
        /\ req.outcome = "null"

\* C23: when the bearer token of a configured worker is missing, the
\* orchestrator never exits with status 0, and from the launch to the exit no
\* worker has written a post or a progress row or sent a request to the API.
C23_MissingTokenExitsBeforeWork ==
    (orch # "init" /\ \E w \in Workers : ~wk[w].cfg.token) =>
        /\ orch # "exit0"
        /\ messages = EmptyMessages
        /\ progress = EmptyProgress
        /\ lastReq = Null

\* worker 1 was launched with a valid configuration and an entity to fetch,
\* worker 2 has no token: the process has exited with status 1
C23_Witness ==
    /\ orch = "exit1"
    /\ ~wk[2].cfg.token
    /\ ConfigOk(wk[1].cfg)
    /\ wk[1].pc = "killed"
    /\ UsersQuery(users, wk[1].cfg.workerTotal, wk[1].cfg.workerIndex) # {}

\* C24: while the worker is in the page loop of an entity the entity's row
\* says running, stamped by this run; when the run has completed, every
\* entity it processed has a row stamped by this run whose status is error
\* if the entity's page loop threw and idle otherwise.
C24_RunningThenIdleOrError ==
    /\ wk[1].pc \in {"fetch", "upsert", "final", "error"} =>
          /\ progress[wk[1].cur] # Null
          /\ Val(progress[wk[1].cur]).status = "running"
          /\ Val(progress[wk[1].cur]).last_run_started_at = Some(wk[1].run)
    /\ wk[1].pc = "done" =>
          \A u \in wk[1].assigned :
             /\ progress[u] # Null
             /\ Val(progress[u]).last_run_started_at = Some(wk[1].run)
             /\ Val(progress[u]).last_run_finished_at = Some(wk[1].run)
             /\ Val(progress[u]).status = IF u \in wk[1].erred THEN "error" ELSE "idle"

\* a second run has completed: one entity threw, another ended its pages
C24_Witness ==
    /\ wk[1].pc = "done"
    /\ wk[1].run = 2
    /\ \E u, v \in wk[1].assigned :
          /\ u \in wk[1].erred
          /\ v \notin wk[1].erred
          /\ Val(progress[v]).status = "idle"

\* the number of posts on the pages of entity u with the cursors toks
RECURSIVE PostsOnPages(_, _)
PostsOnPages(u, toks) ==
    IF toks = {} THEN 0
    ELSE LET tok == CHOOSE t \in toks : TRUE
         IN  Len(ApiPage(api, u, tok).data) + PostsOnPages(u, toks \ {tok})

\* C25: the step that follows a throw in the page loop of an entity writes
\* status error and the error text on the entity's row, adds to total_fetched
\* the number of posts on the pages upserted for the entity in this run, and
\* leaves the worker at the next entity with the remaining targets untouched.
C25_ThrowRecordsErrorAndGoesOn ==
    [][(wk[1].pc = "error" /\ wk'[1].pc \notin {"error", "off"}) =>
          LET u == wk[1].cur
          IN  /\ progress[u] # Null
              /\ progress'[u] # Null
              /\ Val(progress'[u]).status = "error"
              /\ wk[1].err # Null
              /\ Val(progress'[u]).last_error = wk[1].err
              /\ Val(progress'[u]).total_fetched =
                    Val(progress[u]).total_fetched + PostsOnPages(u, wk[1].doneTokens)
              /\ wk'[1].pc = "target"
              /\ wk'[1].targets = wk[1].targets
              /\ \A v \in UserIds \ {u} : progress'[v] = progress[v]]_vars

\* the first run: the second page of an entity threw after the first was
\* upserted, the row says error and counts the first page, another entity
\* is still to come
C25_Witness ==
    /\ wk[1].pc = "target"
    /\ wk[1].run = 1
    /\ wk[1].targets # <<>>
    /\ wk[1].cur \in wk[1].erred
    /\ Val(progress[wk[1].cur]).status = "error"
    /\ Val(progress[wk[1].cur]).total_fetched = PerPage

\* C26: a progress row written for an entity under one shard key is not
\* changed by a write made under a different shard key.
C26_ProgressKeptPerShard ==
    [][\A u \in UserIds :
          (progress[u] # Null /\ progress'[u] # progress[u]) =>
              /\ progress'[u] # Null
              /\ Val(progress'[u]).shard_key = Val(progress[u]).shard_key]_vars

\* C27: under a cap on the posts per entity, the number of posts the worker
\* has upserted for the entity in hand in this run does not exceed the cap.
C27_PostsPerEntityWithinCap ==
    wk[1].cfg.maxTweetsPerUser # 0 =>
        wk[1].fetchedForUser <= wk[1].cfg.maxTweetsPerUser

\* a mark on the stored row of entity u that supplies no cursor and a zero
\* delta: the running mark, or the final or error mark of an entity for
\* which no post was fetched
ZeroMarkStep(u) ==
    /\ progress[u] # Null
    /\ progress'[u] # progress[u]
    /\ \/ wk[1].pc = "target"
       \/ /\ wk[1].pc \in {"final", "error"}
          /\ wk[1].cur = u
          /\ wk[1].fetchedForUser = 0
          /\ wk[1].newestId = Null
          /\ wk[1].oldestId = Null

\* the cursors and the count of a row
CursorsAndCount(row) ==
    <<Val(row).newest_tweet_id, Val(row).oldest_tweet_id, Val(row).total_fetched>>

\* C28 as stated: a mark without cursor and with a zero delta leaves the
\* stored cursors, total_fetched and initial_sync_complete unchanged.
C28_ZeroMarkChangesNothing ==
    [][\A u \in UserIds :
          ZeroMarkStep(u) =>
              /\ CursorsAndCount(progress'[u]) = CursorsAndCount(progress[u])
              /\ Val(progress'[u]).initial_sync_complete =
                    Val(progress[u]).initial_sync_complete]_vars

\* C28 amended: a mark without cursor and with a zero delta leaves the stored
\* cursors and total_fetched unchanged; it leaves initial_sync_complete
\* unchanged unless the entity's pages ended in this run, and never resets it.
C28_ZeroMarkKeepsCursorsAndCount ==
    [][\A u \in UserIds :
          ZeroMarkStep(u) =>
              /\ CursorsAndCount(progress'[u]) = CursorsAndCount(progress[u])
              /\ Val(progress[u]).initial_sync_complete =>
                    Val(progress'[u]).initial_sync_complete
              /\ (Val(progress'[u]).initial_sync_complete #
                     Val(progress[u]).initial_sync_complete) =>
                    (wk[1].pc = "final" /\ wk[1].completedFullHistory)]_vars

\* a rerun has marked running an entity whose row holds cursors, a count and
\* the flag from the run before
C28_Witness ==
    /\ wk[1].run = 2
    /\ wk[1].pc = "fetch"
    /\ wk[1].page = 0
    /\ progress[wk[1].cur] # Null
    /\ Val(progress[wk[1].cur]).status = "running"
    /\ Val(progress[wk[1].cur]).last_run_started_at = Some(2)
    /\ Val(progress[wk[1].cur]).newest_tweet_id # Null
    /\ Val(progress[wk[1].cur]).total_fetched > 0
    /\ Val(progress[wk[1].cur]).initial_sync_complete

\* C29: two consecutive requests of the page loop of one worker, retries
\* included, are at least the configured interval apart.
C29_RequestsAtLeastIntervalApart ==
    \A i \in 1..(Len(lim.sends) - 1) :
        lim.sends[i + 1] - lim.sends[i] >= RequestIntervalMs(lim.budget)

\* C30: a request is sent only from the head of the page loop, with no
\* response waiting to be upserted, for the entity in hand.  A request
\* without cursor follows, within the run, only requests for entities of
\* smaller id; a request with a cursor follows the request for the same
\* entity whose response returned that cursor, and the posts of that response
\* are stored.  The entities still to come have larger ids than the one in
\* hand.
C30_EntitiesAscendingPagesSequential ==
    [][/\ lastReq' # lastReq =>
             LET q == Val(lastReq')
             IN  /\ wk[1].pc = "fetch"
                 /\ wk[1].resp = <<>>
                 /\ q.user = wk[1].cur
                 /\ q.run = wk[1].run
                 /\ q.token = 0 =>
                       \/ lastReq = Null
                       \/ Val(lastReq).run < q.run
                       \/ Val(lastReq).user < q.user
                 /\ q.token # 0 =>
                       /\ lastReq # Null
                       /\ Val(lastReq).user = q.user
                       /\ Val(lastReq).run = q.run
                       /\ LET prev == ApiPage(api, q.user, Val(lastReq).token)
                          IN  /\ prev.next_token = q.token
                              /\ \A i \in DOMAIN prev.data :
                                    messages[prev.data[i].id] # Null
       /\ \A i \in DOMAIN wk'[1].targets :
             /\ wk'[1].targets[i] > wk'[1].cur
             /\ \A j \in DOMAIN wk'[1].targets :
                   i < j => wk'[1].targets[i] < wk'[1].targets[j]]_vars

\* the second page of the second entity of a run has been requested
C30_Witness ==
    /\ lastReq # Null
    /\ Val(lastReq).user = 2
    /\ Val(lastReq).token = 2
    /\ wk[1].assigned = {1, 2}
    /\ wk[1].cur = 2
    /\ messages[TweetId(1, 1, 1)] # Null
    /\ messages[TweetId(2, 1, 1)] # Null

\* C31: when the embedding call fails for a batch, the worker leaves every
\* post of the batch not embedded and with the error persisted in
\* embeddingError.
C31_EmbeddingFailureIsPersisted ==
    [][(emb.pc = "embed" /\ emb'.pc \notin {"embed", "upsert"}) =>
          \A t \in RowIds(emb.rows) :
             /\ messages'[t] # Null
             /\ Val(messages'[t]).embeddedAt = Null
             /\ Val(messages'[t]).embeddingError # Null]_vars

\* C32: the mark that follows a successful embedding and upsert of a batch
\* leaves every post of the batch with embeddedAt set, embeddingVersion the
\* model and embeddingError null; a post with embeddedAt set keeps it in every
\* step that leaves its text alone; a pending fetch returns no post whose
\* embeddedAt is set.
C32_EmbeddedBatchIsNotPendingAgain ==
    [][/\ (emb.pc = "mark" /\ emb'.pc # "mark") =>
             \A t \in RowIds(emb.rows) :
                /\ messages'[t] # Null
                /\ Val(messages'[t]).embeddedAt # Null
                /\ Val(messages'[t]).embeddingVersion = Some(EMBED_MODEL)
                /\ Val(messages'[t]).embeddingError = Null
       /\ \A t \in TweetIds :
             (/\ messages[t] # Null
              /\ Val(messages[t]).embeddedAt # Null
              /\ messages'[t] # Null
              /\ Val(messages'[t]).text = Val(messages[t]).text) =>
                 Val(messages'[t]).embeddedAt = Val(messages[t]).embeddedAt
       /\ (emb.pc = "loop" /\ emb'.pc = "embed") =>
             \A t \in RowIds(emb'.rows) : Val(messages[t]).embeddedAt = Null]_vars

\* a run of batches of one post has embedded every stored post and ended on
\* a fetch that returned nothing
C32_Witness ==
    /\ emb.pc = "done"
    /\ emb.err = Null
    /\ emb.maxBatches = Null
    /\ emb.totalEmbedded = PerPage
    /\ \A i \in 1..PerPage :
          /\ messages[TweetId(1, 1, i)] # Null
          /\ Val(messages[TweetId(1, 1, i)]).embeddedAt # Null
          /\ Val(messages[TweetId(1, 1, i)]).embeddingVersion = Some(EMBED_MODEL)

\* C33: with every call succeeding and no other writer, a started run of the
\* Post Embedding Worker ends; without a limit of batches it has ended only
\* when no stored post has embeddedAt null.
C33_EmbeddingRunTerminates ==
    /\ (emb.pc = "loop") ~> (emb.pc = "done")
    /\ [](emb.pc = "done" /\ emb.maxBatches = Null =>
             PendingIds(messages, users) = {})

\* without a limit, a first run of batches of one post made as many batches
\* as the page has posts and ended with no post pending
C33_Witness ==
    /\ emb.pc = "done"
    /\ emb.maxBatches = Null
    /\ emb.batchSize = 1
    /\ emb.batches = PerPage
    /\ emb.run = 1
    /\ PendingIds(messages, users) = {}
    /\ vectors[TweetId(1, 1, 1)] # Null

\* C34: when the embedding service answered without a vector or with an
\* empty one, the embedding step has no embedding in hand (the generator
\* failed), and no upsert request with an empty vector is made for a profile.
C34_EmptyEmbeddingNeverUpserted ==
    /\ (pv.pc = "upsert" /\ pv.answer \in {"missing", "empty"}) => pv.threw
    /\ <<>> \notin pv.sent
    /\ \A a \in DOMAIN pv.index : pv.index[a] # Some(<<>>)

\* C35: a failed page request of a seed leaves the candidates and the edge
\* intents gathered so far as they are and ends the pages of that seed; the
\* collector goes on with the next seed, or with the artifact after the last
\* seed, and the artifact it writes holds everything gathered, the pages
\* received from a seed before its failure included.
C35_FailedPageKeepsPartialResults ==
    /\ [][col'.failed # col.failed =>
            /\ col'.collectedUsernames = col.collectedUsernames
            /\ col'.edges = col.edges
            /\ col'.k = col.k + 1
            /\ col'.token = 0
            /\ col'.pc = IF col.k < Len(col.baseUsers) THEN "fetch" ELSE "write"]_vars
    /\ [][col.pc = "write" /\ col'.pc # "write" =>
            /\ artifact' # Null
            /\ Val(artifact').edges = col.edges
            /\ \A p \in col.seen :
                  \E i \in DOMAIN Val(artifact').edges :
                     /\ Val(artifact').edges[i].followerDbId = p[1]
                     /\ Lower(Val(artifact').edges[i].followingUsername) = Lower(p[2])]_vars
    /\ [](col.pc = "done" /\ col.baseUsers # <<>> =>
            /\ artifact # Null
            /\ col.k = Len(col.baseUsers) + 1)

\* the second page of seed 1 failed after a first page with a handle; seed 2
\* was fetched afterwards and the artifact holds the edge intents of both
C35_Witness ==
    /\ <<1, 2>> \in col.failed
    /\ \E h \in ColHandles : <<1, h>> \in col.seen
    /\ artifact # Null
    /\ \E i \in DOMAIN Val(artifact).edges : Val(artifact).edges[i].followerDbId = 1
    /\ \E i \in DOMAIN Val(artifact).edges : Val(artifact).edges[i].followerDbId = 2

\* C36: a step of the candidate loop in which a statement threw (an edge
\* upsert was rejected, or the lookup, the insert or the update of the entity
\* failed) counts the candidate as an error and leaves the ingestor at the
\* head of the loop with the next candidate; a run that ended went through
\* every candidate of the slice before its edge-flush pass.
C36_CandidateExceptionCountedAndRunGoesOn ==
    /\ [][(/\ ing.pc \in {"loop", "fetched"}
           /\ ing.i <= Len(ing.slice)
           /\ \/ ing'.edgeFailures > ing.edgeFailures
              \/ ing'.errors > ing.errors) =>
             /\ ing'.errors = ing.errors + 1
             /\ ing'.pc = "loop"
             /\ ing'.i = ing.i + 1]_vars
    /\ [][ing'.pc = "done" /\ ing.pc # "done" => ing.i = Len(ing.slice) + 1]_vars

\* C37: while an operation waits before its retry after a rate-limited
\* response, the wait is the retry-after hint when the response carried one,
\* and otherwise the base delay times 2^attempt, attempt being the number of
\* retries made so far; this holds for each of the three operations.
C37_BackoffIsExponentialOrHint ==
    req.pc = "backoff" =>
        req.wait = IF req.hint # Null THEN Val(req.hint)
                   ELSE BASE_BACKOFF_MS * Pow2(req.attempt)

\* C38: a sequential run with start index s and limit L has selected the
\* candidates at the positions s .. min(s+L, n)-1, in the order of the
\* artifact; the slices of consecutive windows, put one after the other, are
\* the candidates before the next start index, each once, and all of them
\* once the windows have reached the end; a randomized run with ignore-first
\* N and sample size k has selected min(k, n-N) candidates (none when N
\* exceeds n), no two the same and none at a position before N.
C38_SliceSelectsTheWindow ==
    LET o == sel.options
        n == sel.n
    IN  /\ (sel.pc \in {"sliced", "window"} /\ ~o.randomize /\ o.limit # Null) =>
              /\ Len(sel.slice) = Max(0, Min(o.startIndex + Val(o.limit), n) - o.startIndex)
              /\ \A i \in DOMAIN sel.slice : sel.slice[i] = o.startIndex + i - 1
        /\ sel.pc = "window" =>
              /\ sel.covered = SubSeq(Candidates(n), 1, Min(sel.next, n))
              /\ sel.next >= n => sel.covered = Candidates(n)
        /\ (sel.pc = "sliced" /\ o.randomize /\ o.ignoreFirst # Null
                /\ o.sampleSize # Null) =>
              /\ Len(sel.slice) = Max(0, Min(Val(o.sampleSize), n - Val(o.ignoreFirst)))
              /\ \A i, j \in DOMAIN sel.slice : i # j => sel.slice[i] # sel.slice[j]
              /\ \A i \in DOMAIN sel.slice :
                    sel.slice[i] \in Val(o.ignoreFirst)..(n - 1)

\* three candidates: the windows 0..1 and 2..2 have covered them
C38_Witness ==
    /\ sel.pc = "window"
    /\ sel.n = 3
    /\ sel.options.startIndex = 2
    /\ sel.options.limit = Some(2)
    /\ sel.slice = <<2>>
    /\ sel.covered = <<0, 1, 2>>

C40_EveryCandidateCountedOnce ==
    LET counted == ing.reusedExisting + ing.skippedMissing + ing.processed + ing.errors
    IN  /\ ing.pc = "done" => counted = Len(ing.slice)
        /\ ing.pc \in {"loop", "fetched"} => counted = ing.i - 1

\* a run over two candidates has ended: the profile of one was not found, the
\* store of the other threw
C40_Witness ==
    /\ ing.pc = "done"
    /\ Len(ing.slice) = 2
    /\ ing.skippedMissing = 1
    /\ ing.errors = 1

====
